---- MODULE Spec2Model ----
(***************************************************************************)
(* Credential lifecycle and permission gates of liberation-analytics:      *)
(* the api_tokens table, the token handlers (create / list / revoke), the  *)
(* API-token and admin-token middlewares and the detached last_used        *)
(* update.                                                                 *)
(*                                                                         *)
(* Conventions.  A Go string that the code takes apart (header values,     *)
(* paths, secrets, duration specs) is a sequence of chunks, "" being <<>>; *)
(* concatenation is \o.  A nullable column or pointer is a sequence of     *)
(* length at most one, NULL being <<>>.  Instants and durations are whole  *)
(* hours.  SHA-256 is a free constructor: the digest of t is the term      *)
(* [sha256 |-> t], equal for equal inputs and for no others.               *)
(***************************************************************************)
EXTENDS Integers, Sequences, FiniteSets, TLC

VARIABLES
    rows,       \* the api_tokens table, in insertion order
    now,        \* the wall clock (time.Now, CURRENT_TIMESTAMP), in hours
    pending,    \* token ids of the dispatched updateTokenLastUsed goroutines that have not run yet
    resp        \* what the most recent operation received and answered

vars == <<rows, now, pending, resp>>

-----------------------------------------------------------------------------
(* Bounds of the model *)

\* The clock stops advancing at this hour.
MaxTime == 25

\* At most this many detached last_used updates are in flight at once.
MaxPending == 1

\* The updateTokenLastUsed goroutines in flight at once where the model is
\* about their interleavings.
MaxInFlight == 2

\* The longest grant list and the largest magnitude of an expiration the
\* functions are applied to.
MaxGrants == 2

MaxMagnitude == 12

-----------------------------------------------------------------------------
(* Values *)

NULL == <<>>

Some(v) == <<v>>

EmptyStr == <<>>

\* part_000:27-32
PermissionReadInsights == "read:insights"

PermissionReadHealth == "read:health"

PermissionManageTokens == "manage:tokens"

PermissionAdmin == "admin:all"

\* net/http status codes used by the handlers
StatusOK == 200

StatusBadRequest == 400

StatusUnauthorized == 401

StatusForbidden == 403

StatusNotFound == 404

StatusInternalServerError == 500

\* 24 * time.Hour, in hours
DayHours == 24

\* 365 days
YearDays == 365

-----------------------------------------------------------------------------
(* strings *)

HasPrefix(s, prefix) ==
    /\ Len(s) >= Len(prefix)
    /\ SubSeq(s, 1, Len(prefix)) = prefix

TrimPrefix(s, prefix) ==
    IF HasPrefix(s, prefix) THEN SubSeq(s, Len(prefix) + 1, Len(s)) ELSE s

HasSuffix(s, suffix) ==
    /\ Len(s) >= Len(suffix)
    /\ SubSeq(s, Len(s) - Len(suffix) + 1, Len(s)) = suffix

TrimSuffix(s, suffix) ==
    IF HasSuffix(s, suffix) THEN SubSeq(s, 1, Len(s) - Len(suffix)) ELSE s

-----------------------------------------------------------------------------
(* ExpirationPolicy: token_management.go parseExpiresIn *)

Digits == <<"0", "1", "2", "3", "4", "5", "6", "7", "8", "9">>

IsDigit(c) == \E i \in 1..Len(Digits) : Digits[i] = c

DigitVal(c) == (CHOOSE i \in 1..Len(Digits) : Digits[i] = c) - 1

\* The length of the longest prefix of s made of digits.
RECURSIVE DigitRun(_)
DigitRun(s) ==
    IF s = <<>> \/ ~IsDigit(Head(s)) THEN 0 ELSE 1 + DigitRun(Tail(s))

\* A scan that keeps the last digit only.
DecVal_LastDigit(s) == IF s = <<>> THEN 0 ELSE DigitVal(s[Len(s)])

\* The decimal value of a sequence of digits.
RECURSIVE DecVal(_)
DecVal(s) ==
    IF s = <<>> THEN 0
    ELSE DecVal(SubSeq(s, 1, Len(s) - 1)) * 10 + DigitVal(s[Len(s)])

RECURSIVE SkipSpace(_)
SkipSpace(s) ==
    IF s # <<>> /\ Head(s) = " " THEN SkipSpace(Tail(s)) ELSE s

\* fmt.Sscanf(s, "%d", &d): leading blanks are skipped, a sign is accepted,
\* then the longest run of digits is read; what follows the number is not
\* looked at.  No digits: an error.
Sscanf_d(s) ==
    LET t    == SkipSpace(s)
        neg  == t # <<>> /\ Head(t) = "-"
        sgn  == t # <<>> /\ Head(t) \in {"-", "+"}
        u    == IF sgn THEN Tail(t) ELSE t
        n    == DigitRun(u)
        v    == DecVal(SubSeq(u, 1, n))
    IN  IF n = 0 THEN [err |-> TRUE, val |-> 0]
        ELSE [err |-> FALSE, val |-> IF neg THEN 0 - v ELSE v]

\* time.ParseDuration over the units the model's clock can express (whole
\* hours): [-+]? ( digits "h" )+ , or "0".
RECURSIVE DurationGroups(_)
DurationGroups(s) ==
    IF s = <<>> THEN [err |-> FALSE, val |-> 0]
    ELSE LET n == DigitRun(s) IN
         IF n = 0 \/ Len(s) = n \/ s[n + 1] # "h" THEN [err |-> TRUE, val |-> 0]
         ELSE LET rest == DurationGroups(SubSeq(s, n + 2, Len(s))) IN
              [err |-> rest.err, val |-> DecVal(SubSeq(s, 1, n)) + rest.val]

ParseDuration(s) ==
    LET neg == s # <<>> /\ Head(s) = "-"
        sgn == s # <<>> /\ Head(s) \in {"-", "+"}
        u   == IF sgn THEN Tail(s) ELSE s
        g   == DurationGroups(u)
    IN  IF u = <<"0">> THEN [err |-> FALSE, val |-> 0]
        ELSE IF u = <<>> \/ g.err THEN [err |-> TRUE, val |-> 0]
        ELSE [err |-> FALSE, val |-> IF neg THEN 0 - g.val ELSE g.val]

\* parseExpiresIn(expiresIn) at clock reading t: (expiresAt, err)
parseExpiresIn(expiresIn, t) ==
    IF expiresIn = EmptyStr THEN [err |-> FALSE, expiresAt |-> NULL]
    ELSE IF HasSuffix(expiresIn, <<"d">>) THEN
        LET d == Sscanf_d(TrimSuffix(expiresIn, <<"d">>)) IN
        IF d.err THEN [err |-> TRUE, expiresAt |-> NULL]
        ELSE [err |-> FALSE, expiresAt |-> Some(t + d.val * DayHours)]
    ELSE IF HasSuffix(expiresIn, <<"y">>) THEN
        LET y == Sscanf_d(TrimSuffix(expiresIn, <<"y">>)) IN
        IF y.err THEN [err |-> TRUE, expiresAt |-> NULL]
        ELSE [err |-> FALSE, expiresAt |-> Some(t + y.val * YearDays * DayHours)]
    ELSE
        LET p == ParseDuration(expiresIn) IN
        IF p.err THEN [err |-> TRUE, expiresAt |-> NULL]
        ELSE [err |-> FALSE, expiresAt |-> Some(t + p.val)]

-----------------------------------------------------------------------------
(* TokenCodec *)

\* generateSecureToken: "analytics_" + hex.EncodeToString(bytes); entropy is
\* what rand.Read filled the 32 bytes with, in hex, or NULL when it failed.
generateSecureToken(entropy) ==
    IF entropy = NULL THEN [err |-> TRUE, token |-> EmptyStr]
    ELSE [err |-> FALSE, token |-> <<"analytics_">> \o entropy]

\* hashToken: hex(sha256(token))
hashToken(token) == [sha256 |-> token]

\* The tokens of a JSON text: punctuation and string literals.
JPunct(c) == <<"punct", c>>

JString(x) == <<"string", x>>

\* json.Marshal of a []string: the text of a JSON array, token by token.
RECURSIVE jsonElems(_)
jsonElems(list) ==
    IF list = <<>> THEN <<>>
    ELSE IF Len(list) = 1 THEN <<JString(list[1])>>
    ELSE <<JString(list[1]), JPunct(",")>> \o jsonElems(Tail(list))

jsonMarshal(list) == <<JPunct("[")>> \o jsonElems(list) \o <<JPunct("]")>>

\* json.Unmarshal into a []string of a text produced as above.
jsonUnmarshal(text) ==
    LET inner == SubSeq(text, 2, Len(text) - 1)
        n     == (Len(inner) + 1) \div 2
    IN  [i \in 1..n |-> inner[2 * i - 1][2]]

\* validatePermissions returning nil for every list.
validatePermissions_AcceptAll(permissions) == TRUE

\* validatePermissions: TRUE iff it returns nil
validatePermissions(permissions) ==
    \A i \in 1..Len(permissions) :
        permissions[i] \in {PermissionReadInsights, PermissionReadHealth,
                            PermissionManageTokens, PermissionAdmin}

-----------------------------------------------------------------------------
(* CredentialStore: the api_tokens table (part_001:83-92) *)

\* gen_random_uuid(): the id of the n-th row inserted
NewId(n) == <<"token-id", n>>

RowIndexes == 1..Len(rows)

\* The lookup without its is_active filter.
SelectByHash(tokenHash) ==
    {i \in RowIndexes : rows[i].token_hash = tokenHash}

\* The lookup matching only rows that were never used.
SelectActiveByHash_Unused(tokenHash) ==
    {i \in RowIndexes : /\ rows[i].token_hash = tokenHash
                        /\ rows[i].is_active
                        /\ rows[i].last_used = NULL}

\* SELECT ... WHERE token_hash = ? AND is_active = true
SelectActiveByHash(tokenHash) ==
    {i \in RowIndexes : rows[i].token_hash = tokenHash /\ rows[i].is_active}

\* The table without the UNIQUE constraint on token_hash.
HashTaken_NoConstraint(tokenHash) == FALSE

\* token_hash VARCHAR(128) UNIQUE NOT NULL
HashTaken(tokenHash) == \E i \in RowIndexes : rows[i].token_hash = tokenHash

\* INSERT INTO api_tokens (token_hash, name, permissions, expires_at, is_active)
\* VALUES (?, ?, ?, ?, true) RETURNING id; the other columns take their defaults.
InsertRow(tokenHash, name, permissionsJSON, expiresAt) ==
    Append(rows, [id          |-> NewId(Len(rows) + 1),
                  token_hash  |-> tokenHash,
                  name        |-> name,
                  permissions |-> permissionsJSON,
                  created_at  |-> now,
                  last_used   |-> NULL,
                  expires_at  |-> expiresAt,
                  is_active   |-> TRUE])

\* The revocation written without its WHERE clause.
RevokeRows_AllRows(tokenID) ==
    [i \in RowIndexes |-> [rows[i] EXCEPT !.is_active = FALSE]]

\* The revocation written as a toggle of is_active.
RevokeRows_Toggle(tokenID) ==
    [i \in RowIndexes |->
        IF rows[i].id = tokenID THEN [rows[i] EXCEPT !.is_active = ~@] ELSE rows[i]]

\* The revocation written as a deletion of the row.
RevokeRows_Delete(tokenID) ==
    SelectSeq(rows, LAMBDA row : row.id # tokenID)

\* UPDATE api_tokens SET is_active = false WHERE id = ?
RevokeRows(tokenID) ==
    [i \in RowIndexes |->
        IF rows[i].id = tokenID THEN [rows[i] EXCEPT !.is_active = FALSE] ELSE rows[i]]

RowsWithId(tokenID) == {i \in RowIndexes : rows[i].id = tokenID}

\* The update written as a read of the row followed by a write of all its
\* columns, is_active as it stood when the request was let through.
TouchRows_WriteBack(tokenID) ==
    [i \in RowIndexes |->
        IF rows[i].id = tokenID
        THEN [rows[i] EXCEPT !.last_used = Some(now), !.is_active = TRUE]
        ELSE rows[i]]

\* UPDATE api_tokens SET last_used = CURRENT_TIMESTAMP WHERE id = ?
TouchRows(tokenID) ==
    [i \in RowIndexes |->
        IF rows[i].id = tokenID THEN [rows[i] EXCEPT !.last_used = Some(now)] ELSE rows[i]]

-----------------------------------------------------------------------------
(* AuthGate / AdminGate: part_000 *)

\* extractToken looking at the X-API-Key header before the Authorization header.
extractToken_KeyFirst(r) ==
    IF r.XAPIKey # EmptyStr THEN r.XAPIKey
    ELSE IF r.Authorization # EmptyStr /\ HasPrefix(r.Authorization, <<"Bearer ">>)
    THEN TrimPrefix(r.Authorization, <<"Bearer ">>)
    ELSE r.QueryToken

\* extractToken
extractToken(r) ==
    IF r.Authorization # EmptyStr /\ HasPrefix(r.Authorization, <<"Bearer ">>)
    THEN TrimPrefix(r.Authorization, <<"Bearer ">>)
    ELSE IF r.XAPIKey # EmptyStr THEN r.XAPIKey
    ELSE r.QueryToken

\* The *APIToken validateAPIToken builds from the row it scanned: only id,
\* token_hash, name and is_active are selected; Permissions is then set to a
\* fixed list and the other fields keep their zero values.
ScannedToken(row) ==
    [ID          |-> row.id,
     TokenHash   |-> row.token_hash,
     Name        |-> row.name,
     Permissions |-> <<PermissionReadInsights, PermissionReadHealth>>,
     LastUsed    |-> NULL,
     ExpiresAt   |-> NULL,
     IsActive    |-> row.is_active]

NoToken == [ID |-> EmptyStr]

\* validateAPIToken reporting every failed lookup as a missing row.
validateAPIToken_OneError(token, dbFails) ==
    IF token = EmptyStr
    THEN [err |-> <<"empty token">>, apiToken |-> NoToken, queries |-> 0]
    ELSE LET found == SelectActiveByHash(hashToken(token)) IN
         IF dbFails \/ found = {}
         THEN [err |-> <<"token not found or expired">>, apiToken |-> NoToken, queries |-> 1]
         ELSE [err      |-> EmptyStr,
               apiToken |-> ScannedToken(rows[CHOOSE i \in found : \A j \in found : i <= j]),
               queries  |-> 1]

\* validateAPIToken(token); dbFails: the driver returns an error other than
\* sql.ErrNoRows.  queries counts the statements sent to the store.
validateAPIToken(token, dbFails) ==
    IF token = EmptyStr
    THEN [err |-> <<"empty token">>, apiToken |-> NoToken, queries |-> 0]
    ELSE LET found == SelectActiveByHash(hashToken(token)) IN
         IF dbFails
         THEN [err |-> <<"database error: ", "driver">>, apiToken |-> NoToken, queries |-> 1]
         ELSE IF found = {}
         THEN [err |-> <<"token not found or expired">>, apiToken |-> NoToken, queries |-> 1]
         ELSE [err      |-> EmptyStr,
               apiToken |-> ScannedToken(rows[CHOOSE i \in found : \A j \in found : i <= j]),
               queries  |-> 1]

\* hasTokenPermission without the admin:all disjunct.
hasTokenPermission_NoOverride(token, permission) ==
    \E i \in 1..Len(token.Permissions) : token.Permissions[i] = permission

\* hasTokenPermission
hasTokenPermission(token, permission) ==
    \E i \in 1..Len(token.Permissions) :
        token.Permissions[i] = permission \/ token.Permissions[i] = PermissionAdmin

\* hasPermission
hasPermission(token, path) ==
    IF \E i \in 1..Len(token.Permissions) : token.Permissions[i] = PermissionAdmin
    THEN TRUE
    ELSE IF HasPrefix(path, <<"/api/insights">>)
         THEN hasTokenPermission(token, PermissionReadInsights)
    ELSE IF HasPrefix(path, <<"/api/health">>)
         THEN hasTokenPermission(token, PermissionReadHealth)
    ELSE FALSE

\* hasAdminPermission taking any read grant for an admin grant.
hasAdminPermission_AnyGrant(token) ==
    \/ hasTokenPermission(token, PermissionAdmin)
    \/ hasTokenPermission(token, PermissionManageTokens)
    \/ hasTokenPermission(token, PermissionReadInsights)

\* hasAdminPermission
hasAdminPermission(token) ==
    \/ hasTokenPermission(token, PermissionAdmin)
    \/ hasTokenPermission(token, PermissionManageTokens)

\* logAuthFailure logging the request URI, query included, for the path.
logAuthFailure_WithQuery(r, reason) ==
    [tag |-> "AUTH_FAILURE", reason |-> reason, remote |-> r.RemoteAddr,
     agent |-> r.UserAgent,
     path |-> IF r.QueryToken = EmptyStr THEN r.Path
              ELSE r.Path \o <<"?token=">> \o r.QueryToken]

\* logAuthFailure: the record log.Printf writes
logAuthFailure(r, reason) ==
    [tag |-> "AUTH_FAILURE", reason |-> reason, remote |-> r.RemoteAddr,
     agent |-> r.UserAgent, path |-> r.Path]

\* A denial that writes its response without the logAuthFailure call.
Deny_NoLog(logRecord, status, body, queries) ==
    [writes |-> <<[status |-> status, body |-> body]>>, handler |-> 0,
     logs |-> <<>>, queries |-> queries, dispatched |-> <<>>]

\* What one run of a middleware did: the http.Error calls in order (status and
\* body), how often next.ServeHTTP ran, the log records written, the store
\* statements sent, and the ids handed to `go s.updateTokenLastUsed`.
Deny(logRecord, status, body, queries) ==
    [writes |-> <<[status |-> status, body |-> body]>>, handler |-> 0,
     logs |-> <<logRecord>>, queries |-> queries, dispatched |-> <<>>]

\* The allowed branch without the `go s.updateTokenLastUsed` statement.
Allow_NoDispatch(tokenID, queries) ==
    [writes |-> <<>>, handler |-> 1, logs |-> <<>>, queries |-> queries,
     dispatched |-> <<>>]

Allow(tokenID, queries) ==
    [writes |-> <<>>, handler |-> 1, logs |-> <<>>, queries |-> queries,
     dispatched |-> <<tokenID>>]

\* APITokenMiddleware without the return after the 403: the handler runs too.
APITokenMiddleware_NoReturn(r, dbFails) ==
    LET token == extractToken(r) IN
    IF token = EmptyStr
    THEN Deny(logAuthFailure(r, <<"No token provided">>),
              StatusUnauthorized, "Unauthorized: API token required", 0)
    ELSE LET v == validateAPIToken(token, dbFails) IN
         IF v.err # EmptyStr
         THEN Deny(logAuthFailure(r, <<"Invalid token: ">> \o v.err),
                   StatusUnauthorized, "Unauthorized: Invalid token", v.queries)
         ELSE IF ~hasPermission(v.apiToken, r.Path)
         THEN [writes |-> <<[status |-> StatusForbidden,
                             body |-> "Forbidden: Insufficient permissions"]>>,
               handler |-> 1,
               logs |-> <<logAuthFailure(r, <<"Insufficient permissions">>)>>,
               queries |-> v.queries, dispatched |-> <<v.apiToken.ID>>]
         ELSE Allow(v.apiToken.ID, v.queries)

\* APITokenMiddleware answering a failed lookup with 403.
APITokenMiddleware_Forbidden(r, dbFails) ==
    LET token == extractToken(r) IN
    IF token = EmptyStr
    THEN Deny(logAuthFailure(r, <<"No token provided">>),
              StatusUnauthorized, "Unauthorized: API token required", 0)
    ELSE LET v == validateAPIToken(token, dbFails) IN
         IF v.err # EmptyStr
         THEN Deny(logAuthFailure(r, <<"Invalid token: ">> \o v.err),
                   StatusForbidden, "Unauthorized: Invalid token", v.queries)
         ELSE IF ~hasPermission(v.apiToken, r.Path)
         THEN Deny(logAuthFailure(r, <<"Insufficient permissions">>),
                   StatusForbidden, "Forbidden: Insufficient permissions", v.queries)
         ELSE Allow(v.apiToken.ID, v.queries)

\* APITokenMiddleware without its check for a missing token, the lookup being
\* sent for whatever was extracted.
APITokenMiddleware_NoTokenCheck(r, dbFails) ==
    LET token == extractToken(r)
        found == SelectActiveByHash(hashToken(token))
    IN  IF dbFails \/ found = {}
        THEN Deny(logAuthFailure(r, <<"Invalid token: ", "token not found or expired">>),
                  StatusUnauthorized, "Unauthorized: Invalid token", 1)
        ELSE LET apiToken == ScannedToken(rows[CHOOSE i \in found : TRUE]) IN
             IF ~hasPermission(apiToken, r.Path)
             THEN Deny(logAuthFailure(r, <<"Insufficient permissions">>),
                       StatusForbidden, "Forbidden: Insufficient permissions", 1)
             ELSE Allow(apiToken.ID, 1)

\* APITokenMiddleware
APITokenMiddleware(r, dbFails) ==
    LET token == extractToken(r) IN
    IF token = EmptyStr
    THEN Deny(logAuthFailure(r, <<"No token provided">>),
              StatusUnauthorized, "Unauthorized: API token required", 0)
    ELSE LET v == validateAPIToken(token, dbFails) IN
         IF v.err # EmptyStr
         THEN Deny(logAuthFailure(r, <<"Invalid token: ">> \o v.err),
                   StatusUnauthorized, "Unauthorized: Invalid token", v.queries)
         ELSE IF ~hasPermission(v.apiToken, r.Path)
         THEN Deny(logAuthFailure(r, <<"Insufficient permissions">>),
                   StatusForbidden, "Forbidden: Insufficient permissions", v.queries)
         ELSE Allow(v.apiToken.ID, v.queries)

\* AdminTokenMiddleware
AdminTokenMiddleware(r, dbFails) ==
    LET token == extractToken(r) IN
    IF token = EmptyStr
    THEN Deny(logAuthFailure(r, <<"No admin token provided">>),
              StatusUnauthorized, "Unauthorized: Admin token required", 0)
    ELSE LET v == validateAPIToken(token, dbFails) IN
         IF v.err # EmptyStr
         THEN Deny(logAuthFailure(r, <<"Invalid admin token: ">> \o v.err),
                   StatusUnauthorized, "Unauthorized: Invalid token", v.queries)
         ELSE IF ~hasAdminPermission(v.apiToken)
         THEN Deny(logAuthFailure(r, <<"Not an admin token">>),
                   StatusForbidden, "Forbidden: Admin access required", v.queries)
         ELSE Allow(v.apiToken.ID, v.queries)

-----------------------------------------------------------------------------
(* Token management handlers: token_management.go *)

HttpError(status, body) == [status |-> status, body |-> body]

\* handleCreateToken running its INSERT before it validates the request.
handleCreateToken_InsertFirst(decodes, req, entropy, dbFails) ==
    IF ~decodes
    THEN [resp |-> HttpError(StatusBadRequest, "Invalid JSON"), rows |-> rows]
    ELSE LET gen      == generateSecureToken(entropy)
             parsed   == IF req.ExpiresIn # NULL
                         THEN parseExpiresIn(req.ExpiresIn[1], now)
                         ELSE [err |-> FALSE, expiresAt |-> NULL]
             failed   == gen.err \/ dbFails \/ HashTaken(hashToken(gen.token))
             inserted == IF failed THEN rows
                         ELSE InsertRow(hashToken(gen.token), req.Name,
                                        jsonMarshal(req.Permissions), parsed.expiresAt)
         IN
         IF req.Name = ""
         THEN [resp |-> HttpError(StatusBadRequest, "Token name is required"),
               rows |-> inserted]
         ELSE IF Len(req.Permissions) = 0
         THEN [resp |-> HttpError(StatusBadRequest, "At least one permission is required"),
               rows |-> inserted]
         ELSE IF ~validatePermissions(req.Permissions)
         THEN [resp |-> HttpError(StatusBadRequest, "invalid permission"), rows |-> inserted]
         ELSE IF parsed.err
         THEN [resp |-> HttpError(StatusBadRequest, "invalid expires_in"), rows |-> inserted]
         ELSE IF gen.err
         THEN [resp |-> HttpError(StatusInternalServerError, "Failed to generate token"),
               rows |-> rows]
         ELSE IF failed
         THEN [resp |-> HttpError(StatusInternalServerError, "Failed to create token"),
               rows |-> rows]
         ELSE [resp |-> [status      |-> StatusOK,
                         body        |-> "CreateTokenResponse",
                         Token       |-> gen.token,
                         TokenID     |-> NewId(Len(rows) + 1),
                         Name        |-> req.Name,
                         Permissions |-> req.Permissions,
                         CreatedAt   |-> now,
                         ExpiresAt   |-> parsed.expiresAt,
                         IsActive    |-> TRUE],
               rows |-> inserted]

\* handleCreateToken.  decodes: the body is JSON for a CreateTokenRequest;
\* entropy: what rand.Read delivered; dbFails: the INSERT returns a driver
\* error.  The result is the response and the table after the handler.
handleCreateToken(decodes, req, entropy, dbFails) ==
    IF ~decodes
    THEN [resp |-> HttpError(StatusBadRequest, "Invalid JSON"), rows |-> rows]
    ELSE IF req.Name = ""
    THEN [resp |-> HttpError(StatusBadRequest, "Token name is required"), rows |-> rows]
    ELSE IF Len(req.Permissions) = 0
    THEN [resp |-> HttpError(StatusBadRequest, "At least one permission is required"),
          rows |-> rows]
    ELSE IF ~validatePermissions(req.Permissions)
    THEN [resp |-> HttpError(StatusBadRequest, "invalid permission"), rows |-> rows]
    ELSE LET parsed == IF req.ExpiresIn # NULL
                       THEN parseExpiresIn(req.ExpiresIn[1], now)
                       ELSE [err |-> FALSE, expiresAt |-> NULL]
         IN
         IF parsed.err
         THEN [resp |-> HttpError(StatusBadRequest, "invalid expires_in"), rows |-> rows]
         ELSE LET gen == generateSecureToken(entropy) IN
              IF gen.err
              THEN [resp |-> HttpError(StatusInternalServerError, "Failed to generate token"),
                    rows |-> rows]
              ELSE LET tokenHash       == hashToken(gen.token)
                       permissionsJSON == jsonMarshal(req.Permissions)
                   IN
                   IF dbFails \/ HashTaken(tokenHash)
                   THEN [resp |-> HttpError(StatusInternalServerError, "Failed to create token"),
                         rows |-> rows]
                   ELSE [resp |-> [status      |-> StatusOK,
                                   body        |-> "CreateTokenResponse",
                                   Token       |-> gen.token,
                                   TokenID     |-> NewId(Len(rows) + 1),
                                   Name        |-> req.Name,
                                   Permissions |-> req.Permissions,
                                   CreatedAt   |-> now,
                                   ExpiresAt   |-> parsed.expiresAt,
                                   IsActive    |-> TRUE],
                         rows |-> InsertRow(tokenHash, req.Name, permissionsJSON,
                                            parsed.expiresAt)]

\* handleRevokeToken over a store whose RowsAffected counts only the rows whose
\* is_active the update changed.
handleRevokeToken_ChangedRows(tokenID, fault) ==
    IF tokenID = EmptyStr
    THEN [resp |-> HttpError(StatusBadRequest, "Token ID is required"), rows |-> rows]
    ELSE IF fault = "exec"
    THEN [resp |-> HttpError(StatusInternalServerError, "Failed to revoke token"),
          rows |-> rows]
    ELSE IF fault = "rows_affected"
    THEN [resp |-> HttpError(StatusInternalServerError, "Failed to verify token revocation"),
          rows |-> RevokeRows(tokenID)]
    ELSE IF \A i \in RowsWithId(tokenID) : ~rows[i].is_active
    THEN [resp |-> HttpError(StatusNotFound, "Token not found"), rows |-> RevokeRows(tokenID)]
    ELSE [resp |-> [status |-> StatusOK, body |-> "Token revoked successfully"],
          rows |-> RevokeRows(tokenID)]

\* handleRevokeToken.  fault: "none", "exec" (db.Exec returns an error) or
\* "rows_affected" (the update ran and result.RowsAffected returns an error).
handleRevokeToken(tokenID, fault) ==
    IF tokenID = EmptyStr
    THEN [resp |-> HttpError(StatusBadRequest, "Token ID is required"), rows |-> rows]
    ELSE IF fault = "exec"
    THEN [resp |-> HttpError(StatusInternalServerError, "Failed to revoke token"),
          rows |-> rows]
    ELSE IF fault = "rows_affected"
    THEN [resp |-> HttpError(StatusInternalServerError, "Failed to verify token revocation"),
          rows |-> RevokeRows(tokenID)]
    ELSE IF RowsWithId(tokenID) = {}
    THEN [resp |-> HttpError(StatusNotFound, "Token not found"), rows |-> RevokeRows(tokenID)]
    ELSE [resp |-> [status |-> StatusOK, body |-> "Token revoked successfully"],
          rows |-> RevokeRows(tokenID)]

\* The APIToken handleListTokens scans from a row and encodes: json:"-" keeps
\* TokenHash out of the encoding.
ListedToken(row) ==
    [id          |-> row.id,
     name        |-> row.name,
     permissions |-> jsonUnmarshal(row.permissions),
     created_at  |-> row.created_at,
     last_used   |-> row.last_used,
     expires_at  |-> row.expires_at,
     is_active   |-> row.is_active]

\* ORDER BY created_at DESC: the orders the store may return the rows in
\* (rows with equal created_at come in any order).
ListOrders ==
    {o \in [RowIndexes -> RowIndexes] :
        /\ \A i, j \in RowIndexes : i # j => o[i] # o[j]
        /\ \A i, j \in RowIndexes :
              i < j => rows[o[i]].created_at >= rows[o[j]].created_at}

\* handleListTokens, the store returning the rows in the given order
handleListTokens(order, dbFails) ==
    IF dbFails
    THEN HttpError(StatusInternalServerError, "Failed to fetch tokens")
    ELSE [status |-> StatusOK,
          body   |-> [i \in RowIndexes |-> ListedToken(rows[order[i]])]]

-----------------------------------------------------------------------------
(* DashboardGate: dashboard_auth.go.  Strings are sequences of characters;   *)
(* the text after "Basic " stands for its base64 encoding, "%" being a       *)
(* character base64 cannot decode.                                           *)

\* os.Getenv: the value of the variable, "" when it is not set.
Getenv(env, name) == IF env[name] = NULL THEN EmptyStr ELSE env[name][1]

\* r.BasicAuth(): the pair of the Authorization header, ok = FALSE when the
\* header is missing, of another scheme, not base64, or without a colon; the
\* pair is cut at the first colon.
BasicAuth(r) ==
    LET none == [username |-> EmptyStr, password |-> EmptyStr, ok |-> FALSE] IN
    IF ~HasPrefix(r.Authorization, <<"Basic ">>) THEN none
    ELSE LET c == TrimPrefix(r.Authorization, <<"Basic ">>) IN
         IF \E k \in 1..Len(c) : c[k] = "%" THEN none
         ELSE IF \A k \in 1..Len(c) : c[k] # ":" THEN none
         ELSE LET k == CHOOSE j \in 1..Len(c) :
                           c[j] = ":" /\ \A l \in 1..(j - 1) : c[l] # ":"
              IN  [username |-> SubSeq(c, 1, k - 1),
                   password |-> SubSeq(c, k + 1, Len(c)),
                   ok       |-> TRUE]

\* subtle.ConstantTimeCompare(x, y): 0 at once when the lengths differ,
\* otherwise every byte pair is xor-ed into an accumulator.  work lists what
\* was executed.
ConstantTimeCompare(x, y) ==
    IF Len(x) # Len(y)
    THEN [result |-> 0, work |-> <<"len">>]
    ELSE [result |-> IF x = y THEN 1 ELSE 0,
          work   |-> <<"len">> \o [k \in 1..Len(x) |-> "xor"]]

\* validateDashboardCredentials comparing against whatever the environment
\* holds, set or not.
validateDashboardCredentials_NoConfigCheck(username, password, env) ==
    LET expectedUsername == Getenv(env, "DASHBOARD_USERNAME")
        expectedPassword == Getenv(env, "DASHBOARD_PASSWORD")
        u == ConstantTimeCompare(username, expectedUsername)
        p == ConstantTimeCompare(password, expectedPassword)
    IN  IF u.result # 1
        THEN [ok |-> FALSE, logs |-> <<>>, steps |-> <<u.work>>]
        ELSE [ok |-> p.result = 1, logs |-> <<>>, steps |-> <<u.work, p.work>>]

\* validateDashboardCredentials without its password comparison.
validateDashboardCredentials_UserOnly(username, password, env) ==
    LET expectedUsername == Getenv(env, "DASHBOARD_USERNAME")
        expectedPassword == Getenv(env, "DASHBOARD_PASSWORD")
        u == ConstantTimeCompare(username, expectedUsername)
    IN  IF expectedUsername = EmptyStr \/ expectedPassword = EmptyStr
        THEN [ok |-> FALSE, steps |-> <<>>,
              logs |-> <<"Dashboard credentials not configured - access denied">>]
        ELSE [ok |-> u.result = 1, logs |-> <<>>, steps |-> <<u.work>>]

\* validateDashboardCredentials; env: the process environment.  steps lists
\* the work of the comparisons it ran, in order.
validateDashboardCredentials(username, password, env) ==
    LET expectedUsername == Getenv(env, "DASHBOARD_USERNAME")
        expectedPassword == Getenv(env, "DASHBOARD_PASSWORD")
        u == ConstantTimeCompare(username, expectedUsername)
        p == ConstantTimeCompare(password, expectedPassword)
    IN  IF expectedUsername = EmptyStr \/ expectedPassword = EmptyStr
        THEN [ok |-> FALSE, steps |-> <<>>,
              logs |-> <<"Dashboard credentials not configured - access denied">>]
        ELSE IF u.result # 1
        THEN [ok |-> FALSE, logs |-> <<>>, steps |-> <<u.work>>]
        ELSE IF p.result # 1
        THEN [ok |-> FALSE, logs |-> <<>>, steps |-> <<u.work, p.work>>]
        ELSE [ok |-> TRUE, logs |-> <<>>, steps |-> <<u.work, p.work>>]

\* requestAuth: the 401 response with the Basic challenge
requestAuth ==
    [status  |-> StatusUnauthorized,
     headers |-> [WWWAuthenticate |-> "Basic realm=\"Liberation Analytics Dashboard\"",
                  ContentType     |-> "application/json"],
     body    |-> "Authentication required"]

\* DashboardAuthMiddleware: the responses written, how often next.ServeHTTP
\* ran, the log lines and the comparison work.
DashboardAuthMiddleware(r, env) ==
    LET basic == BasicAuth(r) IN
    IF ~basic.ok
    THEN [writes |-> <<requestAuth>>, handler |-> 0, logs |-> <<>>, steps |-> <<>>]
    ELSE LET v == validateDashboardCredentials(basic.username, basic.password, env) IN
         IF ~v.ok
         THEN [writes |-> <<requestAuth>>, handler |-> 0, logs |-> v.logs, steps |-> v.steps]
         ELSE [writes |-> <<>>, handler |-> 1, logs |-> v.logs, steps |-> v.steps]

-----------------------------------------------------------------------------
(* The token-manager command: cmd/token-manager/main.go *)

\* strings.Split(s, ","): the pieces between the "," chunks.
RECURSIVE Split(_)
Split(s) ==
    IF \A k \in 1..Len(s) : s[k] # ","
    THEN <<s>>
    ELSE LET k == CHOOSE j \in 1..Len(s) : s[j] = "," /\ \A l \in 1..(j - 1) : s[l] # ","
         IN  <<SubSeq(s, 1, k - 1)>> \o Split(SubSeq(s, k + 1, Len(s)))

\* strings.TrimSpace: leading and trailing " " chunks removed.
RECURSIVE TrimSpace(_)
TrimSpace(s) ==
    IF s = <<>> THEN s
    ELSE IF s[1] = " " THEN TrimSpace(Tail(s))
    ELSE IF s[Len(s)] = " " THEN TrimSpace(SubSeq(s, 1, Len(s) - 1))
    ELSE s

\* fmt.Sprintf(`"%s"`, piece): the piece between quotes, read back as a JSON
\* string literal.  The permission strings used here hold at most one chunk
\* between commas and spaces, and no quote.
Quoted(piece) ==
    JString(IF piece = <<>> THEN "" ELSE IF Len(piece) = 1 THEN piece[1] ELSE piece)

\* strings.Join(jsonPerms, ",")
RECURSIVE JoinComma(_)
JoinComma(list) ==
    IF list = <<>> THEN <<>>
    ELSE IF Len(list) = 1 THEN <<list[1]>>
    ELSE <<list[1], JPunct(",")>> \o JoinComma(Tail(list))

\* formatPermissions: the comma-separated list as the text of a JSON array.
formatPermissions(permissions) ==
    LET perms     == Split(permissions)
        jsonPerms == [k \in 1..Len(perms) |-> Quoted(TrimSpace(perms[k]))]
    IN  <<JPunct("[")>> \o JoinComma(jsonPerms) \o <<JPunct("]")>>

\* formatExpiration: "NULL" for every argument.  createToken does not call it;
\* its statement has NULL written into it.
formatExpiration(expires) ==
    IF expires = EmptyStr THEN "NULL" ELSE "NULL"

\* log.Fatal: the message is logged and the process exits with status 1.
Fatal(message) == [exit |-> 1, fatal |-> message, stdout |-> <<>>]

\* The command's fingerprint computed with another digest than the server's.
cli_hashToken_Sha1(token) == [sha1 |-> token]

\* hashToken of cmd/token-manager: hex(sha256(token))
cli_hashToken(token) == [sha256 |-> token]

\* createToken(name, permissions, expires).  entropy: what rand.Read delivered;
\* dbFails: sql.Open or db.Exec returns an error.  The statement inserts NULL
\* as expires_at; expires is only printed.
createToken(name, permissions, expires, entropy, dbFails) ==
    IF name = ""
    THEN [out |-> Fatal("Token name is required"), rows |-> rows]
    ELSE IF permissions = EmptyStr
    THEN [out |-> Fatal("Permissions are required"), rows |-> rows]
    ELSE IF entropy = NULL
    THEN [out |-> Fatal("Failed to generate random token:"), rows |-> rows]
    ELSE LET token           == <<"analytics_">> \o entropy[1]
             tokenHash       == cli_hashToken(token)
             permissionsJSON == formatPermissions(permissions)
         IN
         IF dbFails \/ HashTaken(tokenHash)
         THEN [out |-> Fatal("Failed to insert token into database:"), rows |-> rows]
         ELSE [out |-> [exit   |-> 0,
                        fatal  |-> "",
                        stdout |-> <<<<"Token: ", token>>, <<"Name: ", name>>,
                                     <<"Permissions: ", permissions>>>>
                                   \o (IF expires # EmptyStr
                                       THEN <<<<"Expires: ", expires>>>> ELSE <<>>)],
               rows |-> InsertRow(tokenHash, name, permissionsJSON, NULL)]

-----------------------------------------------------------------------------
(* Inputs *)

\* What rand.Read can deliver (the 32 bytes, in hex), NULL when it fails.
Entropy == {<<"aa">>, <<"bb">>}

\* The secrets generateSecureToken can produce.
Secrets == {generateSecureToken(e).token : e \in Entropy}

\* Requests handleCreateToken accepts (the tokens of SETUP.md and one with a
\* lifetime).
GoodCreateRequests ==
    {[Name |-> "Frontend API", Permissions |-> <<PermissionReadInsights>>, ExpiresIn |-> NULL],
     [Name |-> "Monitoring", Permissions |-> <<PermissionReadHealth>>,
      ExpiresIn |-> Some(<<"1", "d">>)],
     [Name |-> "Admin Token", Permissions |-> <<PermissionAdmin>>, ExpiresIn |-> NULL]}

\* One request for each reason handleCreateToken rejects a request.
BadCreateRequests ==
    {[Name |-> "", Permissions |-> <<PermissionAdmin>>, ExpiresIn |-> NULL],
     [Name |-> "svc", Permissions |-> <<>>, ExpiresIn |-> NULL],
     [Name |-> "svc", Permissions |-> <<PermissionReadInsights, "write:all">>,
      ExpiresIn |-> NULL],
     [Name |-> "svc", Permissions |-> <<PermissionReadHealth>>,
      ExpiresIn |-> Some(<<"s", "o", "o", "n">>)],
     [Name |-> "svc", Permissions |-> <<PermissionReadHealth>>,
      ExpiresIn |-> Some(<<"d">>)]}

CreateTokenRequests == GoodCreateRequests \cup BadCreateRequests

\* The paths of the protected routes, and one that hasPermission does not map.
InsightsPath == <<"/api/insights", "/usage">>

HealthPath == <<"/api/health">>

EventsPath == <<"/api/events">>

AdminPath == <<"/api/admin/tokens">>

Paths == {InsightsPath, HealthPath, EventsPath, AdminPath}

Request(authorization, apiKey, queryToken, path) ==
    [Authorization |-> authorization, XAPIKey |-> apiKey, QueryToken |-> queryToken,
     Path |-> path, RemoteAddr |-> "10.0.0.7:40312", UserAgent |-> "curl/8"]

\* Every request: each of the three places empty or holding a secret, the
\* Authorization header also holding "Bearer " alone or another scheme.
AuthorizationValues ==
    {EmptyStr, <<"Bearer ">>, <<"Basic ", "b3A6cHc=">>} \cup {<<"Bearer ">> \o t : t \in Secrets}

Requests ==
    {Request(a, k, q, path) :
        a \in AuthorizationValues, k \in {EmptyStr} \cup Secrets,
        q \in {EmptyStr} \cup Secrets, path \in Paths}

\* The requests the gates are sent: no credential, or a secret as a Bearer
\* Authorization.
BearerRequests(paths) ==
    {Request(a, EmptyStr, EmptyStr, path) :
        a \in {EmptyStr} \cup {<<"Bearer ">> \o t : t \in Secrets}, path \in paths}

\* The ids a revoke request may name: none, those of the rows, and one more.
RevokeIds == {EmptyStr} \cup {NewId(n) : n \in 1..(Len(rows) + 1)}

-----------------------------------------------------------------------------
(* The state machine *)

Init ==
    /\ rows = <<>>
    /\ now = 0
    /\ pending = <<>>
    /\ resp = [op |-> "start"]

\* POST /api/admin/tokens.  A rejected request returns before rand.Read and
\* the INSERT, and a failed INSERT does not depend on the secret: the draws
\* that cannot matter are made once.
CreateToken ==
    \E req \in CreateTokenRequests, entropy \in Entropy, dbFails \in BOOLEAN :
        LET out == handleCreateToken(TRUE, req, entropy, dbFails) IN
        /\ (req \in BadCreateRequests \/ dbFails) => entropy = <<"aa">>
        /\ req \in BadCreateRequests => ~dbFails
        /\ dbFails => req.Name = "Frontend API"
        /\ rows' = out.rows
        /\ resp' = [op |-> "create", decoded |-> Some(req), randOK |-> TRUE,
                    out |-> out.resp]
        /\ UNCHANGED <<now, pending>>

\* POST /api/admin/tokens, the body not being JSON or rand.Read failing (the
\* handler returns before it uses the request, so one request is drawn)
CreateTokenFails ==
    \E decodes \in BOOLEAN, req \in GoodCreateRequests :
        LET out == handleCreateToken(decodes, req, NULL, FALSE) IN
        /\ req.Name = "Frontend API"
        /\ rows' = out.rows
        /\ resp' = [op |-> "create", decoded |-> IF decodes THEN Some(req) ELSE NULL,
                    randOK |-> FALSE, out |-> out.resp]
        /\ UNCHANGED <<now, pending>>

\* GET /api/admin/tokens (a failed query returns no rows, in no order)
ListTokens ==
    \E order \in ListOrders, dbFails \in BOOLEAN :
        /\ dbFails => order = CHOOSE o \in ListOrders : TRUE
        /\ resp' = [op |-> "list", out |-> handleListTokens(order, dbFails)]
        /\ UNCHANGED <<rows, now, pending>>

\* DELETE /api/admin/tokens/{id} (a failed Exec touches no row, whatever the id)
RevokeToken ==
    \E tokenID \in RevokeIds, fault \in {"none", "exec", "rows_affected"} :
        LET out == handleRevokeToken(tokenID, fault) IN
        /\ tokenID = EmptyStr => fault = "none"
        /\ fault = "exec" => tokenID = NewId(1)
        /\ rows' = out.rows
        /\ resp' = [op |-> "revoke", id |-> tokenID, fault |-> fault, out |-> out.resp]
        /\ UNCHANGED <<now, pending>>

\* The gate's part of a request: its outcome is recorded and the update it
\* dispatched joins the goroutines in flight.
ServeWithin(limit, op, r, dbFails, out) ==
    /\ Len(pending) + Len(out.dispatched) <= limit
    /\ pending' = pending \o out.dispatched
    /\ resp' = [op |-> op, req |-> r, dbFails |-> dbFails, out |-> out]
    /\ UNCHANGED <<rows, now>>

Serve(op, r, dbFails, out) == ServeWithin(MaxPending, op, r, dbFails, out)

\* A request through APITokenMiddleware (a failed lookup is answered before
\* the path is looked at, so it is drawn on one path)
AuthGate ==
    \E r \in BearerRequests({InsightsPath, HealthPath, EventsPath}), dbFails \in BOOLEAN :
        /\ dbFails => (extractToken(r) # EmptyStr /\ r.Path = InsightsPath)
        /\ Serve("auth", r, dbFails, APITokenMiddleware(r, dbFails))

\* A request through AdminTokenMiddleware
AdminGate ==
    \E r \in BearerRequests({AdminPath}), dbFails \in BOOLEAN :
        /\ dbFails => extractToken(r) # EmptyStr
        /\ Serve("admin", r, dbFails, AdminTokenMiddleware(r, dbFails))

\* One dispatched updateTokenLastUsed goroutine runs.
UpdateTokenLastUsed ==
    \E k \in 1..Len(pending), dbFails \in BOOLEAN :
        /\ rows' = IF dbFails THEN rows ELSE TouchRows(pending[k])
        /\ pending' = SubSeq(pending, 1, k - 1) \o SubSeq(pending, k + 1, Len(pending))
        /\ resp' = [op |-> "touch", id |-> pending[k],
                    logs |-> IF dbFails THEN <<"Failed to update token last_used">> ELSE <<>>]
        /\ UNCHANGED now

\* Time passes.
Tick ==
    /\ now + DayHours + 1 <= MaxTime
    /\ now' = now + DayHours + 1
    /\ resp' = [op |-> "tick"]
    /\ UNCHANGED <<rows, pending>>

Next ==
    \/ CreateToken
    \/ CreateTokenFails
    \/ ListTokens
    \/ RevokeToken
    \/ AuthGate
    \/ AdminGate
    \/ UpdateTokenLastUsed
    \/ Tick

Spec == Init /\ [][Next]_vars

-----------------------------------------------------------------------------
(* The gates under requests that carry a credential in any of the three      *)
(* places, over a table of credentials issued with read:insights.            *)

\* POST /api/admin/tokens for the "Frontend API" token of SETUP.md
CreateReadToken ==
    \E entropy \in Entropy :
        LET req == [Name |-> "Frontend API", Permissions |-> <<PermissionReadInsights>>,
                    ExpiresIn |-> NULL]
            out == handleCreateToken(TRUE, req, entropy, FALSE)
        IN  /\ rows' = out.rows
            /\ resp' = [op |-> "create", decoded |-> Some(req), randOK |-> TRUE,
                        entropy |-> entropy, out |-> out.resp]
            /\ UNCHANGED <<now, pending>>

\* A request through APITokenMiddleware, any combination of the three places
AuthGateAnySource ==
    \E r \in {q \in Requests : q.Path = InsightsPath} :
        Serve("auth", r, FALSE, APITokenMiddleware(r, FALSE))

\* A request through AdminTokenMiddleware, any combination of the three places
AdminGateAnySource ==
    \E r \in {q \in Requests : q.Path = AdminPath} :
        Serve("admin", r, FALSE, AdminTokenMiddleware(r, FALSE))

ExtractNext ==
    \/ CreateReadToken
    \/ RevokeToken
    \/ AuthGateAnySource
    \/ AdminGateAnySource
    \/ UpdateTokenLastUsed

ExtractSpec == Init /\ [][ExtractNext]_vars

-----------------------------------------------------------------------------
(* The table under both issuance paths: the HTTP handler and the             *)
(* token-manager command.                                                    *)

\* Values of the -name, -permissions and -expires flags.
CliNames == {"", "Frontend API"}

CliPermissions ==
    {EmptyStr,
     <<PermissionReadInsights>>,
     <<PermissionReadInsights, ",", " ", PermissionReadHealth>>,
     <<PermissionReadInsights, ",">>,
     <<"write:all">>}

CliExpires == {EmptyStr, <<"1", "d">>, <<"s", "o", "o", "n">>}

\* token-manager -command=create
CliCreateToken ==
    \E name \in CliNames, permissions \in CliPermissions, expires \in CliExpires,
       entropy \in {NULL} \cup {Some(e) : e \in Entropy}, dbFails \in BOOLEAN :
        LET run == createToken(name, permissions, expires, entropy, dbFails) IN
        /\ rows' = run.rows
        /\ resp' = [op |-> "cli-create", name |-> name, permissions |-> permissions,
                    expires |-> expires, out |-> run.out]
        /\ UNCHANGED <<now, pending>>

CliNext ==
    \/ CliCreateToken
    \/ CreateToken
    \/ ListTokens

CliSpec == Init /\ [][CliNext]_vars

-----------------------------------------------------------------------------
(* Secrets issued by the token-manager command and presented to the server.  *)

\* token-manager -command=create with flags the command accepts
CliIssueToken ==
    \E permissions \in CliPermissions \ {EmptyStr}, entropy \in Entropy :
        LET run == createToken("Frontend API", permissions, EmptyStr, Some(entropy), FALSE) IN
        /\ rows' = run.rows
        /\ resp' = [op |-> "cli-create", name |-> "Frontend API",
                    permissions |-> permissions, expires |-> EmptyStr, out |-> run.out]
        /\ UNCHANGED <<now, pending>>

CliGateNext ==
    \/ CliIssueToken
    \/ AuthGateAnySource
    \/ AdminGate
    \/ RevokeToken
    \/ UpdateTokenLastUsed

CliGateSpec == Init /\ [][CliGateNext]_vars

-----------------------------------------------------------------------------
(* The dashboard gate under every environment and request.                   *)

\* DASHBOARD_USERNAME and DASHBOARD_PASSWORD: not set, set to "", or set.
DashEnvironments ==
    {[n \in {"DASHBOARD_USERNAME", "DASHBOARD_PASSWORD"} |->
        IF n = "DASHBOARD_USERNAME" THEN u ELSE p] :
        u \in {NULL, Some(EmptyStr), Some(<<"a", "d">>)},
        p \in {NULL, Some(EmptyStr), Some(<<"p", "w">>)}}

\* Submitted usernames and passwords: empty, right, wrong in the last
\* character, and shorter.
DashUsernames == {EmptyStr, <<"a", "d">>, <<"a", "x">>, <<"a">>}

DashPasswords == {EmptyStr, <<"p", "w">>, <<"p", "x">>, <<"p">>}

\* Requests to the dashboard: no Authorization header, another scheme, Basic
\* with text that is not base64, Basic without a colon, and Basic pairs.
DashRequests ==
    {Request(a, EmptyStr, EmptyStr, <<"/dashboard">>) :
        a \in {EmptyStr, <<"Bearer ", "analytics_", "aa">>, <<"Basic ", "%">>,
               <<"Basic ", "a", "d">>}
              \cup {<<"Basic ">> \o u \o <<":">> \o p :
                       u \in DashUsernames, p \in DashPasswords}}

\* A request through DashboardAuthMiddleware
DashboardGate ==
    \E env \in DashEnvironments, r \in DashRequests :
        /\ resp' = [op |-> "dashboard", env |-> env, req |-> r,
                    out |-> DashboardAuthMiddleware(r, env)]
        /\ UNCHANGED <<rows, now, pending>>

DashSpec == Init /\ [][DashboardGate]_vars

-----------------------------------------------------------------------------
(* The life of a credential: issuance, requests carrying it in a header or   *)
(* in the query, concurrent last_used updates, listing, revocation, time.    *)

\* The requests sent to the gate here: no credential, a secret as Bearer
\* Authorization, a secret as ?token=.
LifecycleRequests ==
    {Request(EmptyStr, EmptyStr, EmptyStr, InsightsPath)}
    \cup {Request(<<"Bearer ">> \o t, EmptyStr, EmptyStr, InsightsPath) : t \in Secrets}
    \cup {Request(EmptyStr, EmptyStr, t, InsightsPath) : t \in Secrets}

\* A request through APITokenMiddleware, its update joining those in flight
AuthGateConcurrent ==
    \E r \in LifecycleRequests :
        ServeWithin(MaxInFlight, "auth", r, FALSE, APITokenMiddleware(r, FALSE))

LifecycleNext ==
    \/ CreateReadToken
    \/ ListTokens
    \/ RevokeToken
    \/ AuthGateConcurrent
    \/ UpdateTokenLastUsed
    \/ Tick

LifecycleSpec == Init /\ [][LifecycleNext]_vars

-----------------------------------------------------------------------------
(* The permission and expiration functions applied to every input of a       *)
(* bounded set, and issuance with the expirations that matter.               *)

\* Grant lists of up to MaxGrants capabilities.
GrantLists ==
    UNION {[1..n -> {PermissionReadInsights, PermissionReadHealth,
                     PermissionManageTokens, PermissionAdmin}] : n \in 0..MaxGrants}

\* Paths: the protected ones, deeper ones, and some no case of hasPermission
\* names.
PermissionPaths ==
    {InsightsPath, HealthPath, <<"/api/health", "/db">>, EventsPath, AdminPath,
     <<"/">>, <<"/metrics">>, <<"/dashboard">>}

\* The decimal numeral of n, digit by digit.
RECURSIVE Numeral(_)
Numeral(n) ==
    LET digit(d) == <<"0", "1", "2", "3", "4", "5", "6", "7", "8", "9">>[d + 1] IN
    IF n < 10 THEN <<digit(n)>> ELSE Numeral(n \div 10) \o <<digit(n % 10)>>

\* Expirations: empty, a numeral followed by d, y or h, and texts of other
\* shapes, signed ones among them.
ExpirySpecs ==
    {EmptyStr}
    \cup {Numeral(n) \o <<u>> : n \in 0..MaxMagnitude, u \in {"d", "y", "h"}}
    \cup {<<"3", "x", "d">>, <<"x", "3", "d">>, <<"1", ".", "5", "d">>, <<"2", " ", "y">>,
          <<"s", "o", "o", "n">>, <<"d">>, <<"y">>, <<"h">>, <<"1", "2">>, <<"3", "w">>,
          <<"-", "1", "d">>, <<"-", "2", "y">>, <<"-", "3", "h">>, <<"+", "1", "d">>}

\* hasPermission applied to a token with the grants and a path
HasPermissionCall ==
    \E grants \in GrantLists, path \in PermissionPaths :
        /\ resp' = [op |-> "hasPermission", grants |-> grants, path |-> path,
                    result |-> hasPermission([Permissions |-> grants], path)]
        /\ UNCHANGED <<rows, now, pending>>

\* hasTokenPermission applied to a token with the grants and a capability
HasTokenPermissionCall ==
    \E grants \in GrantLists,
       permission \in {PermissionReadInsights, PermissionReadHealth,
                       PermissionManageTokens, PermissionAdmin, "write:all"} :
        /\ resp' = [op |-> "hasTokenPermission", grants |-> grants,
                    permission |-> permission,
                    result |-> hasTokenPermission([Permissions |-> grants], permission)]
        /\ UNCHANGED <<rows, now, pending>>

\* parseExpiresIn applied to an expiration at the current hour
ParseExpiresInCall ==
    \E expiresIn \in ExpirySpecs :
        /\ resp' = [op |-> "parseExpiresIn", expiresIn |-> expiresIn,
                    out |-> parseExpiresIn(expiresIn, now)]
        /\ UNCHANGED <<rows, now, pending>>

\* POST /api/admin/tokens with expires_in absent, empty, "1d", "3xd", "soon" or "-1d";
\* the generator draws the same bytes each time, so that at most one row is
\* inserted.
CreateTokenWithExpiry ==
    \E expiresIn \in {NULL, Some(EmptyStr), Some(<<"1", "d">>), Some(<<"3", "x", "d">>),
                       Some(<<"s", "o", "o", "n">>), Some(<<"-", "1", "d">>)} :
        LET entropy == <<"aa">>
            req == [Name |-> "Monitoring", Permissions |-> <<PermissionReadHealth>>,
                    ExpiresIn |-> expiresIn]
            out == handleCreateToken(TRUE, req, entropy, FALSE)
        IN  /\ rows' = out.rows
            /\ resp' = [op |-> "create", decoded |-> Some(req), randOK |-> TRUE,
                        entropy |-> entropy, out |-> out.resp]
            /\ UNCHANGED <<now, pending>>

FunctionNext ==
    \/ HasPermissionCall
    \/ HasTokenPermissionCall
    \/ ParseExpiresInCall
    \/ CreateTokenWithExpiry
    \/ Tick

FunctionSpec == Init /\ [][FunctionNext]_vars

-----------------------------------------------------------------------------
(* A gate statement by statement: the request in flight is held in resp      *)
(* with the statement it has reached (pc), what it has done so far (out) and  *)
(* what the middleware's branches yield once the lookup has returned (plan).  *)

\* A plain call of updateTokenLastUsed: the caller goes on once the update of
\* each id it handed over has run.
GoReturns_Synchronous(inflight, ids) ==
    \A k \in 1..Len(ids) : \A j \in 1..Len(inflight) : inflight[j] # ids[k]

\* `go s.updateTokenLastUsed(apiToken.ID)`: the statement returns at once,
\* whatever goroutines are in flight.
GoReturns(inflight, ids) == TRUE

\* A middleware that has done nothing yet.
NothingYet ==
    [writes |-> <<>>, handler |-> 0, logs |-> <<>>, queries |-> 0, dispatched |-> <<>>]

GateOutcome(gate, r, dbFails) ==
    IF gate = "auth" THEN APITokenMiddleware(r, dbFails) ELSE AdminTokenMiddleware(r, dbFails)

\* The requests sent to each gate: no credential or a secret as Bearer.
ProgressRequests ==
    {<<"auth", r>> : r \in BearerRequests({InsightsPath, EventsPath})}
    \cup {<<"admin", r>> : r \in BearerRequests({AdminPath})}

Serving == resp.op = "serving"

\* token := extractToken(r); if token == "" the denial branch is taken, else
\* the lookup is sent.  Requests are taken while fewer than MaxInFlight updates
\* are in flight.
Receive ==
    \E g \in ProgressRequests :
        LET gate  == g[1]
            r     == g[2]
            token == extractToken(r)
        IN  /\ ~Serving
            /\ Len(pending) < MaxInFlight
            /\ resp' = [op |-> "serving", gate |-> gate, req |-> r, dbFails |-> FALSE,
                        pc |-> IF token = EmptyStr THEN "log" ELSE "lookup",
                        plan |-> IF token = EmptyStr THEN GateOutcome(gate, r, FALSE)
                                 ELSE NothingYet,
                        out |-> NothingYet]
            /\ UNCHANGED <<rows, now, pending>>

\* validateAPIToken returns (a row, no row, or a driver error) and the
\* permission check is made.
LookupReturns ==
    \E dbFails \in BOOLEAN :
        LET plan == GateOutcome(resp.gate, resp.req, dbFails) IN
        /\ Serving
        /\ resp.pc = "lookup"
        /\ resp' = [resp EXCEPT !.dbFails = dbFails, !.plan = plan,
                                !.out.queries = plan.queries,
                                !.pc = IF plan.handler = 1 THEN "dispatch" ELSE "log"]
        /\ UNCHANGED <<rows, now, pending>>

\* s.logAuthFailure(r, reason)
LogFailure ==
    /\ Serving
    /\ resp.pc = "log"
    /\ resp' = [resp EXCEPT !.out.logs = resp.plan.logs, !.pc = "respond"]
    /\ UNCHANGED <<rows, now, pending>>

\* http.Error(w, body, status); return
Respond ==
    /\ Serving
    /\ resp.pc = "respond"
    /\ resp' = [op |-> resp.gate, req |-> resp.req, dbFails |-> resp.dbFails,
                out |-> [resp.out EXCEPT !.writes = resp.plan.writes]]
    /\ UNCHANGED <<rows, now, pending>>

\* go s.updateTokenLastUsed(apiToken.ID)
Dispatch ==
    /\ Serving
    /\ resp.pc = "dispatch"
    /\ pending' = pending \o resp.plan.dispatched
    /\ resp' = [resp EXCEPT !.out.dispatched = resp.plan.dispatched, !.pc = "next"]
    /\ UNCHANGED <<rows, now>>

\* next.ServeHTTP(w, r)
CallNext ==
    /\ Serving
    /\ resp.pc = "next"
    /\ GoReturns(pending, resp.out.dispatched)
    /\ resp' = [op |-> resp.gate, req |-> resp.req, dbFails |-> resp.dbFails,
                out |-> [resp.out EXCEPT !.handler = resp.plan.handler]]
    /\ UNCHANGED <<rows, now, pending>>

\* A dispatched updateTokenLastUsed goroutine runs, beside whatever request is
\* being served.
UpdateDetached ==
    \E k \in 1..Len(pending), dbFails \in BOOLEAN :
        /\ rows' = IF dbFails THEN rows ELSE TouchRows(pending[k])
        /\ pending' = SubSeq(pending, 1, k - 1) \o SubSeq(pending, k + 1, Len(pending))
        /\ UNCHANGED <<now, resp>>

\* Issuance and revocation, between requests.
IssueBetween == ~Serving /\ CreateReadToken

RevokeBetween == ~Serving /\ RevokeToken

ProgressNext ==
    \/ Receive
    \/ LookupReturns
    \/ LogFailure
    \/ Respond
    \/ Dispatch
    \/ CallNext
    \/ UpdateDetached
    \/ IssueBetween
    \/ RevokeBetween

\* The goroutine serving a request is scheduled and the store answers the
\* lookup; nothing is assumed of the detached updates or of new requests.
ProgressSpec ==
    /\ Init
    /\ [][ProgressNext]_vars
    /\ WF_vars(LookupReturns)
    /\ WF_vars(LogFailure)
    /\ WF_vars(Respond)
    /\ WF_vars(Dispatch)
    /\ WF_vars(CallNext)

-----------------------------------------------------------------------------
(* Vocabulary of the properties *)

\* §3: a principal is usable iff it is active and not expired.
Usable(row) ==
    /\ row.is_active
    /\ row.expires_at = NULL \/ row.expires_at[1] > now

\* The grants a row was issued with.
IssuedGrants(row) == jsonUnmarshal(row.permissions)

Grants(row, permission) ==
    \E k \in 1..Len(IssuedGrants(row)) : IssuedGrants(row)[k] = permission

\* The rows whose fingerprint is that of the secret.
RowsOfSecret(token) == {i \in RowIndexes : rows[i].token_hash = hashToken(token)}

\* The most recent operation was a request through a gate.
Gated == resp.op \in {"auth", "admin"}

\* The secret the gated request was found to carry.
Presented == extractToken(resp.req)

\* The gate let the request through to the downstream handler and wrote nothing.
Allowed(out) == out.handler = 1 /\ out.writes = <<>>

\* The gate answered the request itself, once, with this status.
DeniedWith(out, status) ==
    /\ out.handler = 0
    /\ Len(out.writes) = 1
    /\ out.writes[1].status = status

\* The store lookup of the gated request returned a row.
LookupReturnedRow ==
    /\ Presented # EmptyStr
    /\ ~resp.dbFails
    /\ \E i \in RowsOfSecret(Presented) : rows[i].is_active

-----------------------------------------------------------------------------
(* Properties *)

\* C1 (as claimed): after a successful issuance with name N and grants G, the
\* principal validateAPIToken returns for the issued secret has name N and
\* grants exactly G.
C1_RoundTrip ==
    (resp.op = "create" /\ resp.out.status = StatusOK) =>
        LET v == validateAPIToken(resp.out.Token, FALSE) IN
        /\ v.err = EmptyStr
        /\ v.apiToken.Name = resp.out.Name
        /\ v.apiToken.Permissions = resp.out.Permissions

\* C2 (as claimed): a request through APITokenMiddleware with a usable
\* credential issued with grants G is allowed on an /api/insights path iff G
\* holds read:insights or admin:all, and on an /api/health path iff G holds
\* read:health or admin:all; a read:health-only credential gets 403 on
\* /api/insights.
C2_AuthorizesOnIssuedGrants ==
    (resp.op = "auth" /\ ~resp.dbFails) =>
        \A i \in RowsOfSecret(Presented) :
            Usable(rows[i]) =>
                /\ HasPrefix(resp.req.Path, <<"/api/insights">>) =>
                      /\ Allowed(resp.out) <=>
                            (Grants(rows[i], PermissionReadInsights)
                                \/ Grants(rows[i], PermissionAdmin))
                      /\ IssuedGrants(rows[i]) = <<PermissionReadHealth>> =>
                            DeniedWith(resp.out, StatusForbidden)
                /\ HasPrefix(resp.req.Path, <<"/api/health">>) =>
                      (Allowed(resp.out) <=>
                            (Grants(rows[i], PermissionReadHealth)
                                \/ Grants(rows[i], PermissionAdmin)))

\* C3 (as claimed): a credential issued with a TTL validates while the clock is
\* before its expires_at, and once the clock is past expires_at every
\* validation of its secret fails and the gates answer 401, its active flag
\* still being true.
C3_Expiry ==
    (Gated /\ ~resp.dbFails) =>
        \A i \in RowsOfSecret(Presented) :
            (rows[i].is_active /\ rows[i].expires_at # NULL) =>
                /\ now < rows[i].expires_at[1] =>
                      validateAPIToken(Presented, FALSE).err = EmptyStr
                /\ now > rows[i].expires_at[1] =>
                      /\ validateAPIToken(Presented, FALSE).err # EmptyStr
                      /\ DeniedWith(resp.out, StatusUnauthorized)

\* C4: revocation is terminal.  Once a row is inactive (only handleRevokeToken
\* makes it so) it stays inactive under its fingerprint whatever operation
\* comes next, validation of its secret fails and a gate answers a request
\* carrying its secret with 401 and does not invoke the handler, whether the
\* row has an expires_at or not.
C4_RevocationTerminal ==
    [][\A i \in RowIndexes :
          ~rows[i].is_active =>
              /\ i <= Len(rows')
              /\ rows'[i].token_hash = rows[i].token_hash
              /\ ~rows'[i].is_active
              /\ (Gated' /\ hashToken(Presented') = rows[i].token_hash) =>
                    /\ DeniedWith(resp'.out, StatusUnauthorized)
                    /\ resp'.out.dispatched = <<>>
                    /\ validateAPIToken(Presented, FALSE)'.err # EmptyStr]_vars

\* C4 witness: a gate has answered 401 to a request that carried the secret of
\* a revoked row, on a store that answered the lookup.
C4_Witness ==
    /\ Gated
    /\ ~resp.dbFails
    /\ \E i \in RowsOfSecret(Presented) : ~rows[i].is_active /\ rows[i].expires_at # NULL
    /\ DeniedWith(resp.out, StatusUnauthorized)

\* C5 (as claimed): a request carrying a usable credential issued with
\* admin:all is allowed by APITokenMiddleware on every /api/insights and
\* /api/health path and by AdminTokenMiddleware.
C5_OverrideCapability ==
    (Gated /\ ~resp.dbFails) =>
        \A i \in RowsOfSecret(Presented) :
            (Usable(rows[i]) /\ Grants(rows[i], PermissionAdmin)) =>
                /\ (resp.op = "auth" /\ (HasPrefix(resp.req.Path, <<"/api/insights">>)
                                         \/ HasPrefix(resp.req.Path, <<"/api/health">>)))
                      => Allowed(resp.out)
                /\ resp.op = "admin" => Allowed(resp.out)

\* C6 (as claimed): AdminTokenMiddleware allows a request iff its secret
\* resolves to a usable principal whose issued grants hold manage:tokens or
\* admin:all, whatever the path.
C6_AdminTier ==
    resp.op = "admin" =>
        (Allowed(resp.out) <=>
            /\ ~resp.dbFails
            /\ \E i \in RowsOfSecret(Presented) :
                  /\ Usable(rows[i])
                  /\ Grants(rows[i], PermissionManageTokens)
                        \/ Grants(rows[i], PermissionAdmin))

\* The gated request carried the secret of a credential issued with grants
\* [read:insights] and no TTL, not revoked since, and the store answered.
ScenarioA ==
    /\ Gated
    /\ ~resp.dbFails
    /\ \E i \in RowsOfSecret(Presented) :
          /\ rows[i].is_active
          /\ IssuedGrants(rows[i]) = <<PermissionReadInsights>>
          /\ rows[i].expires_at = NULL

\* C7: Scenario A.  A request with the secret of a credential issued with grants
\* [read:insights] and no TTL is allowed by APITokenMiddleware on an
\* /api/insights path, and AdminTokenMiddleware answers it 403 (not 401) without
\* invoking the handler.
C7_ScenarioA ==
    ScenarioA =>
        /\ (resp.op = "auth" /\ HasPrefix(resp.req.Path, <<"/api/insights">>))
              => Allowed(resp.out)
        /\ resp.op = "admin" => DeniedWith(resp.out, StatusForbidden)

\* C7 witness: AdminTokenMiddleware has answered 403 in scenario A.
C7_Witness ==
    /\ ScenarioA
    /\ resp.op = "admin"
    /\ DeniedWith(resp.out, StatusForbidden)

\* The permission check the gate of the most recent request applies to the
\* principal its lookup returned.
PermissionCheckPasses ==
    LET principal == validateAPIToken(Presented, resp.dbFails).apiToken IN
    IF resp.op = "auth" THEN hasPermission(principal, resp.req.Path)
    ELSE hasAdminPermission(principal)

\* C8: every request through a gate ends in exactly one of ALLOWED (the
\* downstream handler invoked once, nothing written by the gate) and DENIED
\* (one denial response written, the handler not invoked); it is ALLOWED iff
\* extraction yielded a secret, the lookup returned a row and the permission
\* check passed.
C8_OneTerminalOutcome ==
    Gated =>
        /\ resp.out.handler \in {0, 1}
        /\ Len(resp.out.writes) \in {0, 1}
        /\ resp.out.handler = 1 <=> Len(resp.out.writes) = 0
        /\ resp.out.handler = 1 <=> (LookupReturnedRow /\ PermissionCheckPasses)

\* C8 witness: a gate has let a request through.
C8_Witness ==
    /\ Gated
    /\ LookupReturnedRow
    /\ Allowed(resp.out)

\* C9: a gate answers 403 only when the lookup returned a row and the
\* permission check failed; every other denial (no secret, no matching row, a
\* revoked row, a store error) is answered 401.
C9_DenialStatus ==
    (Gated /\ resp.out.writes # <<>>) =>
        \A k \in 1..Len(resp.out.writes) :
            /\ resp.out.writes[k].status \in {StatusUnauthorized, StatusForbidden}
            /\ resp.out.writes[k].status = StatusForbidden
                  <=> (LookupReturnedRow /\ ~PermissionCheckPasses)

\* C9 witness: a gate has answered 403 to a request whose secret resolved.
C9_Witness ==
    /\ Gated
    /\ LookupReturnedRow
    /\ DeniedWith(resp.out, StatusForbidden)

\* The gated request carries no credential in any of the three places.
NoCredential ==
    /\ Gated
    /\ resp.req.Authorization = EmptyStr
    /\ resp.req.XAPIKey = EmptyStr
    /\ resp.req.QueryToken = EmptyStr

\* C10: Scenario B.  A request without a credential is answered 401 by either
\* gate, no statement is sent to the store for it and no last_used update is
\* dispatched.
C10_ScenarioB ==
    NoCredential =>
        /\ DeniedWith(resp.out, StatusUnauthorized)
        /\ resp.out.queries = 0
        /\ resp.out.dispatched = <<>>

\* C10 witness: a gate has answered a request without a credential while the
\* table holds a usable row.
C10_Witness ==
    /\ NoCredential
    /\ \E i \in RowIndexes : Usable(rows[i])
    /\ DeniedWith(resp.out, StatusUnauthorized)

\* The gated request carried a secret and the store lookup failed with a driver
\* error.
StoreErrorOnLookup == Gated /\ Presented # EmptyStr /\ resp.dbFails

\* The gated request carried a secret, the store answered, and no active row
\* matched (no row at all, or a revoked one).
CredentialInvalid ==
    /\ Gated
    /\ Presented # EmptyStr
    /\ ~resp.dbFails
    /\ \A i \in RowsOfSecret(Presented) : ~rows[i].is_active

\* The response a gate writes for a secret no active row matches.
InvalidTokenResponse ==
    <<[status |-> StatusUnauthorized, body |-> "Unauthorized: Invalid token"]>>

\* C11: Scenario C.  When the store lookup fails with an error other than "no
\* row", the gate answers 401 with the response it gives for an invalid
\* credential, and the reason of the record it logs names a database error,
\* which the record logged for an invalid credential never does.
C11_ScenarioC ==
    /\ StoreErrorOnLookup =>
          /\ resp.out.writes = InvalidTokenResponse
          /\ resp.out.handler = 0
          /\ Len(resp.out.logs) = 1
          /\ \E k \in 1..Len(resp.out.logs[1].reason) :
                resp.out.logs[1].reason[k] = "database error: "
    /\ CredentialInvalid =>
          /\ resp.out.writes = InvalidTokenResponse
          /\ Len(resp.out.logs) = 1
          /\ \A k \in 1..Len(resp.out.logs[1].reason) :
                resp.out.logs[1].reason[k] # "database error: "

\* C11 witness: a lookup has failed with a driver error for the secret of a
\* usable row, and the gate has answered 401.
C11_Witness ==
    /\ StoreErrorOnLookup
    /\ \E i \in RowsOfSecret(Presented) : Usable(rows[i])
    /\ DeniedWith(resp.out, StatusUnauthorized)

ResolvedUsing(x) ==
    /\ x = EmptyStr => (resp.out.queries = 0 /\ DeniedWith(resp.out, StatusUnauthorized))
    /\ x # EmptyStr =>
          /\ resp.out.queries = 1
          /\ ~DeniedWith(resp.out, StatusUnauthorized)
                <=> \E i \in RowsOfSecret(x) : rows[i].is_active
          /\ \A k \in 1..Len(resp.out.dispatched) :
                \E i \in RowsOfSecret(x) : rows[i].id = resp.out.dispatched[k]

\* C13: extraction precedence.  A request with an Authorization: Bearer X
\* header is resolved using X whatever the X-API-Key header and the token
\* parameter hold; without a Bearer header it is resolved using the X-API-Key
\* value; with neither, using the token parameter.
C13_ExtractionPrecedence ==
    Gated =>
        LET bearer == HasPrefix(resp.req.Authorization, <<"Bearer ">>) IN
        /\ bearer => ResolvedUsing(TrimPrefix(resp.req.Authorization, <<"Bearer ">>))
        /\ (~bearer /\ resp.req.XAPIKey # EmptyStr) => ResolvedUsing(resp.req.XAPIKey)
        /\ (~bearer /\ resp.req.XAPIKey = EmptyStr) => ResolvedUsing(resp.req.QueryToken)

\* C13 witness: a request has carried the secret of a revoked row as Bearer and
\* the secret of an active row as X-API-Key, and was answered 401.
C13_Witness ==
    /\ Gated
    /\ HasPrefix(resp.req.Authorization, <<"Bearer ">>)
    /\ \E i \in RowsOfSecret(TrimPrefix(resp.req.Authorization, <<"Bearer ">>)) :
          ~rows[i].is_active
    /\ \E i \in RowsOfSecret(resp.req.XAPIKey) : rows[i].is_active
    /\ DeniedWith(resp.out, StatusUnauthorized)

\* §3: the fixed capability enumeration.
CapabilityEnumeration ==
    {PermissionReadInsights, PermissionReadHealth, PermissionManageTokens, PermissionAdmin}

\* The decoded request of an HTTP issuance lists a string outside the
\* enumeration.
UnknownCapability(r) ==
    /\ r.op = "create"
    /\ r.decoded # NULL
    /\ \E k \in 1..Len(r.decoded[1].Permissions) :
          r.decoded[1].Permissions[k] \notin CapabilityEnumeration

\* C14: an HTTP issuance whose grant list holds a string outside the
\* enumeration is answered with an error and leaves the rows of the table as
\* they were.
C14_UnknownCapabilityRejected ==
    [][UnknownCapability(resp') =>
          /\ resp'.out.status \in {StatusBadRequest, StatusInternalServerError}
          /\ rows' = rows]_vars

\* C14 witness: an issuance listing "write:all" has been refused while the
\* table held a row.
C14_Witness ==
    /\ UnknownCapability(resp)
    /\ resp.out.status = StatusBadRequest
    /\ rows # <<>>

\* The HTTP issuance recorded in r is one the handler must refuse: empty name,
\* empty grant list, an expires_in that does not parse, or no secret generated.
MustFail(r, t) ==
    \/ ~r.randOK
    \/ /\ r.decoded # NULL
       /\ \/ r.decoded[1].Name = ""
          \/ r.decoded[1].Permissions = <<>>
          \/ /\ r.decoded[1].ExpiresIn # NULL
             /\ parseExpiresIn(r.decoded[1].ExpiresIn[1], t).err

\* C17: an HTTP issuance with an empty name, an empty grant list, an
\* unparseable expires_in or a failed secret generation is answered with an
\* error and inserts nothing; every issuance answered with an error leaves the
\* table as it was, and a row is inserted only by an issuance that passed all
\* these checks.
C17_FailingIssuanceFrame ==
    [][resp'.op = "create" =>
          /\ MustFail(resp', now) =>
                resp'.out.status \in {StatusBadRequest, StatusInternalServerError}
          /\ resp'.out.status # StatusOK => rows' = rows
          /\ rows' # rows =>
                /\ ~MustFail(resp', now)
                /\ Len(rows') = Len(rows) + 1
                /\ SubSeq(rows', 1, Len(rows)) = rows]_vars

\* C17 witness: an issuance with an unparseable expires_in has been refused
\* while the table held a row.
C17_Witness ==
    /\ resp.op = "create"
    /\ resp.decoded # NULL
    /\ resp.decoded[1].ExpiresIn # NULL
    /\ parseExpiresIn(resp.decoded[1].ExpiresIn[1], now).err
    /\ resp.out.status = StatusBadRequest
    /\ rows # <<>>

\* C15 (as claimed): in every reachable state of the table, the grants of every
\* row are a non-empty list of capabilities of the enumeration, whether the
\* row was inserted by handleCreateToken or by the token-manager command.
C15_GrantsWithinEnumeration ==
    \A i \in RowIndexes :
        /\ IssuedGrants(rows[i]) # <<>>
        /\ \A k \in 1..Len(IssuedGrants(rows[i])) :
              IssuedGrants(rows[i])[k] \in CapabilityEnumeration

\* C16 (as claimed): a run of the token-manager create command given an
\* expiration either inserts a row whose expires_at is the instant the
\* expiration resolves to, or inserts nothing; given an expiration that does
\* not parse it inserts nothing.
C16_CliHonoursTTL ==
    [][(resp'.op = "cli-create" /\ resp'.expires # EmptyStr) =>
          LET parsed == parseExpiresIn(resp'.expires, now) IN
          \/ rows' = rows
          \/ /\ ~parsed.err
             /\ Len(rows') = Len(rows) + 1
             /\ rows'[Len(rows')].expires_at = parsed.expiresAt]_vars

\* Both dashboard values are set and non-empty in the environment of the
\* recorded request.
DashConfigured(r) ==
    /\ Getenv(r.env, "DASHBOARD_USERNAME") # EmptyStr
    /\ Getenv(r.env, "DASHBOARD_PASSWORD") # EmptyStr

\* The dashboard gate answered 401 with the Basic challenge, once, and did not
\* invoke the handler.
Challenged(out) ==
    /\ out.handler = 0
    /\ Len(out.writes) = 1
    /\ out.writes[1].status = StatusUnauthorized
    /\ out.writes[1].headers.WWWAuthenticate =
          "Basic realm=\"Liberation Analytics Dashboard\""

\* C18: fail-closed configuration.  When DASHBOARD_USERNAME or
\* DASHBOARD_PASSWORD is not set or is empty, DashboardAuthMiddleware denies
\* every request, a Basic pair of empty username and empty password included,
\* and does not invoke the handler.
C18_FailClosed ==
    (resp.op = "dashboard" /\ ~DashConfigured(resp)) => Challenged(resp.out)

\* C18 witness: with neither value set, a Basic pair of empty username and
\* empty password has been denied.
C18_Witness ==
    /\ resp.op = "dashboard"
    /\ resp.env["DASHBOARD_USERNAME"] = NULL
    /\ resp.env["DASHBOARD_PASSWORD"] = NULL
    /\ resp.req.Authorization = <<"Basic ", ":">>
    /\ Challenged(resp.out)

\* C19: DashboardAuthMiddleware invokes the handler iff both values are
\* configured non-empty and the Authorization header is "Basic " followed by
\* the configured username, a colon and the configured password; in every
\* other case it answers 401 with the Basic challenge.
C19_DashboardGate ==
    resp.op = "dashboard" =>
        LET match ==
                /\ DashConfigured(resp)
                /\ resp.req.Authorization =
                      <<"Basic ">> \o Getenv(resp.env, "DASHBOARD_USERNAME")
                                   \o <<":">> \o Getenv(resp.env, "DASHBOARD_PASSWORD")
        IN  /\ match => (resp.out.handler = 1 /\ resp.out.writes = <<>>)
            /\ ~match => Challenged(resp.out)

\* C19 witness: the configured pair has been let through.
C19_Witness ==
    /\ resp.op = "dashboard"
    /\ DashConfigured(resp)
    /\ resp.out.handler = 1
    /\ resp.out.writes = <<>>

\* C20 (as claimed): with both values configured, the comparison work
\* validateDashboardCredentials executes is the same for every submitted pair:
\* the work done for the pair of the request is the work done for any other
\* pair.
C20_ConstantTime ==
    (resp.op = "dashboard" /\ DashConfigured(resp) /\ BasicAuth(resp.req).ok) =>
        \A u \in DashUsernames, p \in DashPasswords :
            validateDashboardCredentials(u, p, resp.env).steps = resp.out.steps

\* The chunks of text that make up the random part of a secret.
SecretChunks == UNION {{e[k] : k \in 1..Len(e)} : e \in Entropy}

\* A text (a sequence of chunks) holds the random part of a secret.
HoldsSecret(text) == \E k \in 1..Len(text) : text[k] \in SecretChunks

\* C21: no row holds a plaintext secret (token_hash is a SHA-256 fingerprint,
\* name and permissions are what the request gave), no auth-failure log record
\* holds one, the listing returns neither secret nor fingerprint, and the only
\* output holding a secret is the response of the issuance that inserted its
\* row.
C21_SecretNeverStored ==
    /\ \A i \in RowIndexes :
          /\ DOMAIN rows[i].token_hash = {"sha256"}
          /\ rows[i].name \notin SecretChunks
          /\ \A k \in 1..Len(rows[i].permissions) :
                rows[i].permissions[k][2] \notin SecretChunks
    /\ resp.op \in {"auth", "admin"} =>
          \A k \in 1..Len(resp.out.logs) :
              /\ ~HoldsSecret(resp.out.logs[k].reason)
              /\ ~HoldsSecret(resp.out.logs[k].path)
              /\ resp.out.logs[k].remote \notin SecretChunks
              /\ resp.out.logs[k].agent \notin SecretChunks
    /\ (resp.op = "list" /\ resp.out.status = StatusOK) =>
          \A k \in 1..Len(resp.out.body) :
              /\ DOMAIN resp.out.body[k] \cap {"token", "token_hash"} = {}
              /\ resp.out.body[k].name \notin SecretChunks
    /\ resp.op = "create" =>
          IF resp.out.status = StatusOK
          THEN /\ rows # <<>>
               /\ rows[Len(rows)].token_hash = hashToken(resp.out.Token)
               /\ rows[Len(rows)].id = resp.out.TokenID
          ELSE DOMAIN resp.out = {"status", "body"}
    /\ resp.op = "revoke" => DOMAIN resp.out = {"status", "body"}
    /\ resp.op = "touch" => \A k \in 1..Len(resp.logs) : resp.logs[k] \notin SecretChunks

\* C21 witness: a request carrying the secret of a revoked row as ?token= has
\* been refused and the refusal logged.
C21_Witness ==
    /\ resp.op = "auth"
    /\ resp.req.QueryToken # EmptyStr
    /\ \E i \in RowsOfSecret(resp.req.QueryToken) : ~rows[i].is_active
    /\ Len(resp.out.logs) = 1

\* C22: a gate dispatches exactly one last_used update for an allowed request,
\* for the row of the secret it carried, and none for a denied one; the gate
\* step itself leaves the table alone (the update is not awaited); a run of an
\* update, failed or not, removes it from those in flight (no retry), and a
\* failed one changes nothing and is logged.
C22_LastUsedSideEffect ==
    [][/\ resp'.op \in {"auth", "admin"} =>
             /\ rows' = rows
             /\ Allowed(resp'.out) =>
                   /\ Len(resp'.out.dispatched) = 1
                   /\ pending' = Append(pending, resp'.out.dispatched[1])
                   /\ \E i \in RowsOfSecret(extractToken(resp'.req)) :
                         rows[i].id = resp'.out.dispatched[1]
             /\ ~Allowed(resp'.out) =>
                   /\ resp'.out.dispatched = <<>>
                   /\ pending' = pending
       /\ resp'.op = "touch" =>
             /\ Len(pending') = Len(pending) - 1
             /\ resp'.logs # <<>> => rows' = rows]_vars

\* C22 witness: a request has been allowed while the update of an earlier one
\* was still in flight.
C22_Witness ==
    /\ resp.op = "auth"
    /\ Allowed(resp.out)
    /\ Len(pending) = 2

\* C23: the detached updates need no synchronization.  Whatever else is in
\* flight, and whether or not the row has been revoked meanwhile, a run of an
\* update changes nothing but last_used of the rows with its id, which becomes
\* the instant of that run; no other step changes last_used.
C23_ConcurrentUpdates ==
    [][\A i \in RowIndexes :
          /\ i <= Len(rows')
          /\ resp'.op = "touch" =>
                /\ rows'[i] = [rows[i] EXCEPT !.last_used = rows'[i].last_used]
                /\ rows'[i].last_used \in {rows[i].last_used, Some(now)}
                /\ (rows[i].id = resp'.id /\ resp'.logs = <<>>) =>
                      rows'[i].last_used = Some(now)
          /\ resp'.op # "touch" => rows'[i].last_used = rows[i].last_used]_vars

\* C23 witness: an update has run for a row revoked since its request, while
\* another update for the same row was still in flight and after an earlier
\* one had written an earlier instant.
C23_Witness ==
    /\ resp.op = "touch"
    /\ resp.logs = <<>>
    /\ \E k \in 1..Len(pending) : pending[k] = resp.id
    /\ \E i \in RowIndexes :
          /\ rows[i].id = resp.id
          /\ ~rows[i].is_active
          /\ rows[i].last_used = Some(now)
          /\ now > 0

\* C24: a row is inserted with is_active true, and a row whose is_active is
\* false keeps it false through every step: issuance, gate request, listing,
\* revocation, last_used update.
C24_ActiveMonotone ==
    [][/\ Len(rows') >= Len(rows)
       /\ \A i \in 1..Len(rows') :
             IF i <= Len(rows)
             THEN ~rows[i].is_active => ~rows'[i].is_active
             ELSE rows'[i].is_active]_vars

\* C24 witness: a revoked row has had a last_used update run on it and has
\* been named by a second revocation, and is still inactive.
C24_Witness ==
    /\ resp.op = "revoke"
    /\ resp.out.status = StatusOK
    /\ \E i \in RowIndexes :
          /\ rows[i].id = resp.id
          /\ ~rows[i].is_active
          /\ rows[i].last_used # NULL
          /\ rows[i].last_used[1] > rows[i].created_at

\* C30: no step changes id, token_hash, name, permissions, created_at or
\* expires_at of an existing row, and no row disappears; gate requests and
\* listings change no column of any row.
C30_ImmutableColumns ==
    [][/\ Len(rows') >= Len(rows)
       /\ \A i \in RowIndexes :
             /\ rows'[i].id = rows[i].id
             /\ rows'[i].token_hash = rows[i].token_hash
             /\ rows'[i].name = rows[i].name
             /\ rows'[i].permissions = rows[i].permissions
             /\ rows'[i].created_at = rows[i].created_at
             /\ rows'[i].expires_at = rows[i].expires_at
       /\ resp'.op \in {"auth", "admin", "list"} => rows' = rows]_vars

\* C30 witness: a row issued at hour 0 has been through a last_used update at
\* a later hour and a revocation, and a listing has just been served.
C30_Witness ==
    /\ resp.op = "list"
    /\ resp.out.status = StatusOK
    /\ \E i \in RowIndexes :
          /\ rows[i].created_at = 0
          /\ ~rows[i].is_active
          /\ rows[i].last_used # NULL
          /\ rows[i].last_used[1] > 0

\* C25: no two rows of the table have the same token_hash, so the rows with
\* the fingerprint of a secret are at most one; an issuance whose secret has a
\* fingerprint already in the table is answered with an error and adds no row.
C25_FingerprintUnique ==
    [][/\ \A i, j \in 1..Len(rows') :
             i # j => rows'[i].token_hash # rows'[j].token_hash
       /\ \A t \in Secrets :
             Cardinality({i \in 1..Len(rows') : rows'[i].token_hash = hashToken(t)}) <= 1
       /\ (/\ resp'.op = "create"
           /\ "entropy" \in DOMAIN resp'
           /\ \E i \in RowIndexes :
                 rows[i].token_hash = hashToken(<<"analytics_">> \o resp'.entropy))
          => (rows' = rows /\ resp'.out.status = StatusInternalServerError)]_vars

\* C25 witness: an issuance has drawn a secret whose fingerprint a revoked row
\* holds, and was refused.
C25_Witness ==
    /\ resp.op = "create"
    /\ "entropy" \in DOMAIN resp
    /\ resp.out.status = StatusInternalServerError
    /\ \E i \in RowIndexes :
          /\ rows[i].token_hash = hashToken(<<"analytics_">> \o resp.entropy)
          /\ ~rows[i].is_active

\* C26 (as claimed): on a path prefixed by neither /api/insights nor
\* /api/health, hasPermission is false for every grant list.
C26_DenyByDefault ==
    (/\ resp.op = "hasPermission"
     /\ ~HasPrefix(resp.path, <<"/api/insights">>)
     /\ ~HasPrefix(resp.path, <<"/api/health">>))
    => ~resp.result

\* C27: parseExpiresIn returns no expiration for the empty text, now + N*24h
\* for the numeral of N followed by d, now + N*365*24h for it followed by y,
\* and now + D for a general duration (here N hours, "Nh"); an HTTP issuance
\* with expires_in absent inserts a row with no expires_at.
C27_ExpirationPolicy ==
    /\ resp.op = "parseExpiresIn" =>
          /\ resp.expiresIn = EmptyStr =>
                (~resp.out.err /\ resp.out.expiresAt = NULL)
          /\ \A n \in 0..MaxMagnitude :
                /\ resp.expiresIn = Numeral(n) \o <<"d">> =>
                      (~resp.out.err /\ resp.out.expiresAt = Some(now + n * 24))
                /\ resp.expiresIn = Numeral(n) \o <<"y">> =>
                      (~resp.out.err /\ resp.out.expiresAt = Some(now + n * 365 * 24))
                /\ resp.expiresIn = Numeral(n) \o <<"h">> =>
                      (~resp.out.err /\ resp.out.expiresAt = Some(now + n))
    /\ (/\ resp.op = "create"
        /\ "entropy" \in DOMAIN resp
        /\ resp.decoded[1].ExpiresIn = NULL
        /\ resp.out.status = StatusOK)
       => (/\ resp.out.ExpiresAt = NULL
           /\ rows[Len(rows)].id = resp.out.TokenID
           /\ rows[Len(rows)].expires_at = NULL)

\* C27 witness: "12y" has been resolved at a later hour than 0.
C27_Witness ==
    /\ resp.op = "parseExpiresIn"
    /\ resp.expiresIn = <<"1", "2", "y">>
    /\ now > 0
    /\ resp.out.expiresAt = Some(now + 105120)

\* The text is a decimal integer (digits, a sign before them or not) followed
\* by d or y.
DecimalDaysOrYears(s) ==
    LET m == IF s # <<>> /\ Head(s) \in {"-", "+"} THEN Tail(s) ELSE s IN
    /\ Len(m) >= 2
    /\ m[Len(m)] \in {"d", "y"}
    /\ \A k \in 1..(Len(m) - 1) : IsDigit(m[k])

\* C28 (as claimed): for every expiration that is not empty, not a decimal
\* integer followed by d or y and not a valid general duration, parseExpiresIn
\* returns an error and an issuance with it inserts no row.
C28_ExpirationRejected ==
    /\ (/\ resp.op = "parseExpiresIn"
        /\ resp.expiresIn # EmptyStr
        /\ ~DecimalDaysOrYears(resp.expiresIn)
        /\ ParseDuration(resp.expiresIn).err)
       => resp.out.err
    /\ (/\ resp.op = "create"
        /\ "entropy" \in DOMAIN resp
        /\ resp.decoded[1].ExpiresIn # NULL
        /\ resp.decoded[1].ExpiresIn[1] # EmptyStr
        /\ ~DecimalDaysOrYears(resp.decoded[1].ExpiresIn[1])
        /\ ParseDuration(resp.decoded[1].ExpiresIn[1]).err)
       => resp.out.status = StatusBadRequest

\* C29: hasTokenPermission(token, p) is true iff p or admin:all is among the
\* token's grants; with no grants it is false for every p.
C29_HasTokenPermission ==
    resp.op = "hasTokenPermission" =>
        LET held == {resp.grants[k] : k \in 1..Len(resp.grants)} IN
        /\ resp.result <=> (resp.permission \in held \/ "admin:all" \in held)
        /\ resp.grants = <<>> => ~resp.result

\* C29 witness: a token holding only admin:all has been asked for read:health
\* and the answer was yes.
C29_Witness ==
    /\ resp.op = "hasTokenPermission"
    /\ resp.grants = <<"admin:all">>
    /\ resp.permission = "read:health"
    /\ resp.result

\* The row with its last_used column left out.
WithoutLastUsed(row) ==
    [id |-> row.id, token_hash |-> row.token_hash, name |-> row.name,
     permissions |-> row.permissions, created_at |-> row.created_at,
     expires_at |-> row.expires_at, is_active |-> row.is_active]

\* What a gate decided: whether the handler ran, and the responses written.
Decision(out) == [handler |-> out.handler, writes |-> out.writes]

\* C31: when a step changes the table in last_used values only, every request
\* (no credential, each secret, on each path, the lookup answering or failing)
\* gets the same decision and status from APITokenMiddleware and from
\* AdminTokenMiddleware on the table before and on the table after.
C31_LastUsedIrrelevant ==
    [][(/\ rows' # rows
        /\ Len(rows') = Len(rows)
        /\ \A i \in RowIndexes : WithoutLastUsed(rows'[i]) = WithoutLastUsed(rows[i]))
       => \A r \in BearerRequests(Paths), dbFails \in BOOLEAN :
             /\ Decision(APITokenMiddleware(r, dbFails)')
                   = Decision(APITokenMiddleware(r, dbFails))
             /\ Decision(AdminTokenMiddleware(r, dbFails)')
                   = Decision(AdminTokenMiddleware(r, dbFails))]_vars

\* C31 witness: an update has just set last_used of an active row, and a
\* request with that row's secret is let through.
C31_Witness ==
    /\ resp.op = "touch"
    /\ \E t \in Secrets :
          /\ \E i \in RowsOfSecret(t) :
                rows[i].id = resp.id /\ rows[i].is_active /\ rows[i].last_used = Some(now)
          /\ Allowed(APITokenMiddleware(
                 Request(<<"Bearer ">> \o t, EmptyStr, EmptyStr, InsightsPath), FALSE))

\* C32: a secret printed by the token-manager command, presented to a gate
\* while its row is active and the lookup answers, is resolved by
\* validateAPIToken to the row the command inserted (never 401); and every
\* secret the command prints is one generateSecureToken can produce, the
\* prefix "analytics_" followed by the hex of the random bytes, its row
\* carrying the server's fingerprint of it.
C32_SameFingerprint ==
    /\ (Gated /\ ~resp.dbFails /\ Presented # EmptyStr) =>
          \A i \in RowIndexes :
              (rows[i].token_hash = cli_hashToken(Presented) /\ rows[i].is_active) =>
                  /\ validateAPIToken(Presented, FALSE).err = EmptyStr
                  /\ validateAPIToken(Presented, FALSE).apiToken.ID = rows[i].id
                  /\ ~DeniedWith(resp.out, StatusUnauthorized)
                  /\ Allowed(resp.out) => resp.out.dispatched = <<rows[i].id>>
    /\ (resp.op = "cli-create" /\ resp.out.exit = 0) =>
          \E e \in Entropy :
              /\ resp.out.stdout[1] = <<"Token: ", generateSecureToken(e).token>>
              /\ generateSecureToken(e).token = <<"analytics_", e[1]>>
              /\ rows[Len(rows)].token_hash = hashToken(generateSecureToken(e).token)

\* C32 witness: a request carrying a secret the command issued has been let
\* through, the update dispatched for the command's row.
C32_Witness ==
    /\ resp.op = "auth"
    /\ Allowed(resp.out)
    /\ \E i \in RowIndexes :
          /\ rows[i].token_hash = cli_hashToken(Presented)
          /\ rows[i].permissions = formatPermissions(<<PermissionReadInsights, ",">>)
          /\ resp.out.dispatched = <<rows[i].id>>

\* C33: a handleRevokeToken step leaves the number of rows, every row with
\* another id and every field but is_active of the named row unchanged; when
\* the statement runs and no row has the id, the answer is 404 and the table is
\* unchanged.
C33_RevokeFrame ==
    [][resp'.op = "revoke" =>
          /\ Len(rows') = Len(rows)
          /\ \A i \in RowIndexes :
                /\ rows[i].id # resp'.id => rows'[i] = rows[i]
                /\ [rows'[i] EXCEPT !.is_active = rows[i].is_active] = rows[i]
          /\ (/\ resp'.id # EmptyStr
              /\ resp'.fault = "none"
              /\ \A i \in RowIndexes : rows[i].id # resp'.id)
             => (resp'.out.status = StatusNotFound /\ rows' = rows)]_vars

\* C33 witness: a revocation has succeeded on one of two rows, the other still
\* active and the revoked one keeping the last_used it had.
C33_Witness ==
    /\ resp.op = "revoke"
    /\ resp.out.status = StatusOK
    /\ Len(rows) = 2
    /\ \E i, j \in RowIndexes :
          /\ rows[i].id = resp.id /\ ~rows[i].is_active /\ rows[i].last_used # NULL
          /\ rows[j].id # resp.id /\ rows[j].is_active

\* C34: after a handleRevokeToken step whose statement ran on an existing id,
\* handleRevokeToken on the same id again leaves the table as that step left it
\* and answers 200; and a step that names an already revoked row changes
\* nothing and is answered 200, not 404.
C34_RevokeIdempotent ==
    [][\A n \in RowIndexes :
          (/\ resp'.op = "revoke"
           /\ resp'.fault = "none"
           /\ resp'.id = NewId(n))
          => /\ resp'.out.status = StatusOK
             /\ handleRevokeToken(NewId(n), "none")'.rows = rows'
             /\ handleRevokeToken(NewId(n), "none")'.resp.status = StatusOK
             /\ ~rows[n].is_active => rows' = rows]_vars

\* C34 witness: the only row has just been revoked with success and is
\* inactive: the state in which the second revocation of the same id is made.
C34_Witness ==
    /\ resp.op = "revoke"
    /\ resp.fault = "none"
    /\ resp.out.status = StatusOK
    /\ Len(rows) = 1
    /\ rows[1].id = resp.id
    /\ ~rows[1].is_active
    /\ rows[1].last_used = NULL

\* C35 (as claimed): a gated request is answered as lacking a credential only
\* when no source carries a secret: no Authorization value "Bearer " followed
\* by a non-empty secret, no non-empty X-API-Key and no non-empty token
\* parameter.
C35_MissingOnlyIfNoSource ==
    (Gated /\ extractToken(resp.req) = EmptyStr) =>
        /\ ~(/\ HasPrefix(resp.req.Authorization, <<"Bearer ">>)
             /\ TrimPrefix(resp.req.Authorization, <<"Bearer ">>) # EmptyStr)
        /\ resp.req.XAPIKey = EmptyStr
        /\ resp.req.QueryToken = EmptyStr

\* C36 (as claimed): the instant parseExpiresIn returns for a text it accepts
\* is not earlier than the time of the call, and a row just inserted by an
\* issuance does not carry an expires_at earlier than the time of issuance.
C36_ExpiryNotInPast ==
    /\ (/\ resp.op = "parseExpiresIn"
        /\ ~resp.out.err
        /\ resp.out.expiresAt # NULL)
       => resp.out.expiresAt[1] >= now
    /\ (/\ resp.op = "create"
        /\ "entropy" \in DOMAIN resp
        /\ resp.out.status = StatusOK
        /\ rows[Len(rows)].expires_at # NULL)
       => rows[Len(rows)].expires_at[1] >= rows[Len(rows)].created_at

\* The request served last ended ALLOWED or DENIED.
Decided ==
    /\ resp.op \in {"auth", "admin"}
    /\ \/ resp.out.handler = 1 /\ resp.out.writes = <<>>
       \/ /\ resp.out.handler = 0
          /\ Len(resp.out.writes) = 1
          /\ resp.out.writes[1].status \in {StatusUnauthorized, StatusForbidden}

\* C37: a request being served by a gate eventually ends ALLOWED or DENIED,
\* given that the lookup returns and the serving goroutine runs; nothing is
\* assumed of the detached last_used updates, which may never run.
C37_EventuallyDecided == Serving ~> Decided

\* C37 witness: a request has ended ALLOWED while the update it dispatched is
\* still in flight and the row has never been touched.
C37_Witness ==
    /\ resp.op = "auth"
    /\ resp.out.handler = 1
    /\ resp.out.dispatched # <<>>
    /\ \E j \in 1..Len(pending) : pending[j] = resp.out.dispatched[1]
    /\ \A i \in RowIndexes : rows[i].last_used = NULL

\* The log holds one auth-failure record, with the request's remote address,
\* client agent and path.
OneFailureRecord(logs, r) ==
    /\ Len(logs) = 1
    /\ logs[1].tag = "AUTH_FAILURE"
    /\ logs[1].remote = r.RemoteAddr
    /\ logs[1].agent = r.UserAgent
    /\ logs[1].path = r.Path

\* C38: a gate writes a denial response only after it has written exactly one
\* auth-failure record carrying the remote address, the client agent and the
\* path of the request, and the step that writes the response adds no record;
\* a request that ends ALLOWED has written no record.
C38_DenialsReported ==
    [][/\ (/\ resp' # resp
           /\ resp'.op \in {"serving", "auth", "admin"}
           /\ resp'.out.writes # <<>>) =>
             /\ resp.op = "serving"
             /\ resp.out.writes = <<>>
             /\ OneFailureRecord(resp.out.logs, resp.req)
             /\ resp'.out.logs = resp.out.logs
             /\ resp'.req = resp.req
       /\ (resp'.op \in {"auth", "admin"} /\ resp'.out.handler = 1) =>
             resp'.out.logs = <<>>
       /\ (resp'.op \in {"auth", "admin"} /\ resp'.out.handler = 0) =>
             resp'.out.writes # <<>>]_vars

\* C38 witness: a request whose secret resolved to a row has been denied for
\* its grants, the record written.
C38_Witness ==
    /\ resp.op \in {"auth", "admin"}
    /\ resp.out.writes = <<[status |-> StatusForbidden,
                            body |-> "Forbidden: Insufficient permissions"]>>
    /\ OneFailureRecord(resp.out.logs, resp.req)
    /\ resp.out.logs[1].reason = <<"Insufficient permissions">>

====
